---- MODULE Spec2Model ----
(***************************************************************************)
(* Verification development for stockpulse-ai: the prediction ledger, its  *)
(* three-horizon verification pass and the statistics / unlock gate of     *)
(* backend/app/services/verification.py.                                   *)
(*                                                                         *)
(* Encoding.  Time is counted in whole days; two calls on the same day     *)
(* stand for two calls within the resolution of the clock that stamps      *)
(* them.  Prices are positive integers.  A percentage return rounded to    *)
(* two decimals is an integer number of hundredths of a percent; an        *)
(* accuracy rounded to one decimal is an integer number of tenths of a     *)
(* percent.  Ratios are exact rationals: the binary floating point of the  *)
(* program can round a ratio that lies exactly between two decimals the    *)
(* other way.  A nullable column is a sequence: <<>> is None / NULL and    *)
(* <<v>> is the value v.                                                   *)
(***************************************************************************)
EXTENDS Integers, Sequences, FiniteSets, TLC

VARIABLES
    preds,      \* the predictions table, in id order
    stats,      \* the verification_stats table, in id order
    now,        \* the clock, in days
    market,     \* the price the market quotes for each ticker today
    lastRun,    \* the latest run_verification call: its inputs and its result
    latest,     \* the latest get_latest_stats call: rows seen and row returned
    digests,    \* the digests table, in id order
    state,      \* the state file of the drawdown strategy
    cache,      \* the price cache of the DrawdownStrategy object
    clock,      \* the wall clock of the drawdown strategy, in seconds
    input,      \* argument of the pure function under check
    output      \* result of the pure function under check

vars == <<preds, stats, now, market, lastRun, latest, digests, state, cache, clock,
          input, output>>

(***************************************************************************)
(* Bounds of the model.                                                    *)
(***************************************************************************)
MaxPreds == 2
MaxStats == 2
MaxFailed == 1
MaxPrice == 8
MaxVerified == 111
MaxScore == 100
MaxBars == 63
MaxHeadlines == 2
MaxStocks == 4
MaxTopN == 3
MaxTracked == 3
MaxLedger == 1
MaxDay == 1
MaxTrades == 2
MaxDen == 4
MaxDays == 7
MaxWords == 2
MaxRepeatLedger == 1

(***************************************************************************)
(* Program constants.                                                      *)
(***************************************************************************)
MinPredictions == 50
MinAccuracy == 55
RsiPeriod == 14
ShortPeriod == 20
LongPeriod == 50
TopN == 5
SecondsPerDay == 86400
CacheTtl == 300
NormalBuyAmount == 500
AggressiveBuyAmount == 1500
DrawdownThreshold == 20
ProfitTakeThreshold == 40
MaxPosition == 10000
MinDaysNormal == 7
MinDaysAggressive == 5
StopLossPct == -25

Horizons == {1, 7, 30}

None == <<>>
Some(v) == <<v>>
IsNone(x) == x = <<>>
Val(x) == x[1]

(***************************************************************************)
(* round(x, ndigits) of Python on the rational num / den (den > 0), with   *)
(* the result counted in units of 10^-ndigits: round half to even.         *)
(***************************************************************************)
RoundHalfEven(num, den) ==
    LET q == IF num >= 0 THEN num \div den ELSE -((-num + den - 1) \div den)
        r == num - q * den
    IN  IF 2 * r < den THEN q
        ELSE IF 2 * r > den THEN q + 1
        ELSE IF q % 2 = 0 THEN q ELSE q + 1

(***************************************************************************)
(* The picks a digest run can log, the market, and what the market-data    *)
(* lookup can answer for a ticker.                                         *)
(***************************************************************************)
Tickers == {"AAPL"}

Picks ==
    { [ticker |-> "AAPL", company_name |-> "Apple", direction |-> "buy",
       score |-> 62],
      [ticker |-> "AAPL", company_name |-> "Apple", direction |-> "sell",
       score |-> -48] }

Quotes == {100, 110}

\* The days on which a request or a scheduled job arrives: around each horizon.
Days == {0, 1, 7, 30}

\* fetch_stock_data never raises: a failure comes back as a tagged error, and
\* a quote without a price as price None.
StockData(price, error) == [price |-> price, error |-> error]

NoData == StockData(None, Some("No data available"))
NoPrice == StockData(None, None)

\* What one call of fetch_stock_data(ticker) returns, by how the lookup
\* goes, while the market quotes the ticker at price p.
Lookups == {"price", "no data", "no price"}

FetchStockData(lookup, p) ==
    IF lookup = "price" THEN StockData(Some(p), None)
    ELSE IF lookup = "no data" THEN NoData
    ELSE NoPrice

(***************************************************************************)
(* Prediction rows.                                                        *)
(***************************************************************************)
Prediction(pick, price, date) ==
    [ ticker |-> pick.ticker,
      company_name |-> pick.company_name,
      direction |-> pick.direction,
      score |-> pick.score,
      price_at_prediction |-> price,
      prediction_date |-> date,
      verified |-> [h \in Horizons |-> FALSE],
      price_after |-> [h \in Horizons |-> None],
      correct |-> [h \in Horizons |-> None],
      return |-> [h \in Horizons |-> None] ]

\* verify_prediction with the return of a sell left uninverted.
VerifyPredictionSellNotInverted(prediction, current_price) ==
    LET price_change == current_price - prediction.price_at_prediction
    IN  [raised |-> prediction.price_at_prediction = 0,
         correct |-> IF prediction.direction = "buy"
                     THEN price_change > 0 ELSE price_change < 0,
         return_pct |-> IF prediction.price_at_prediction = 0 THEN 0
                        ELSE RoundHalfEven(price_change * 10000,
                                           prediction.price_at_prediction),
         current_price |-> current_price]

\* verify_prediction: raised is the ZeroDivisionError of a zero price at
\* prediction; return_pct is round(actual_return, 2) in hundredths.
VerifyPrediction(prediction, current_price) ==
    LET price_change == current_price - prediction.price_at_prediction
    IN  IF prediction.price_at_prediction = 0
        THEN [raised |-> TRUE, correct |-> FALSE, return_pct |-> 0,
              current_price |-> current_price]
        ELSE IF prediction.direction = "buy"
        THEN [raised |-> FALSE,
              correct |-> price_change > 0,
              return_pct |-> RoundHalfEven(price_change * 10000,
                                           prediction.price_at_prediction),
              current_price |-> current_price]
        ELSE [raised |-> FALSE,
              correct |-> price_change < 0,
              return_pct |-> RoundHalfEven(-(price_change * 10000),
                                           prediction.price_at_prediction),
              current_price |-> current_price]

(***************************************************************************)
(* run_verification.                                                       *)
(***************************************************************************)
Ids(ledger) == 1 .. Len(ledger)

\* The query with the verified_h filter left out.
PredictionsDueIgnoringVerified(ledger, t, h) ==
    { i \in Ids(ledger) : ledger[i].prediction_date <= t - h }

\* The query with "<" for "<=": a row exactly h days old is not due.
PredictionsDueStrictlyOlder(ledger, t, h) ==
    { i \in Ids(ledger) :
        ledger[i].prediction_date < t - h /\ ~ledger[i].verified[h] }

\* The query of one horizon: older than h days, not yet verified.
PredictionsDue(ledger, t, h) ==
    { i \in Ids(ledger) :
        ledger[i].prediction_date <= t - h /\ ~ledger[i].verified[h] }

\* Every (row, horizon) a pass started at time t fetches a price for.
DueEntries(ledger, t) ==
    { e \in Ids(ledger) \X Horizons : e[1] \in PredictionsDue(ledger, t, e[2]) }

\* "if stock_data.price": None and 0 are both false.
HasPrice(stock_data) == ~IsNone(stock_data.price) /\ Val(stock_data.price) # 0

\* The loop body of a later horizon pasted with price_after_1d left in.
SetVerifiedWrongColumn(pred, h, result) ==
    [pred EXCEPT !.price_after[1] = Some(result.current_price),
                 !.correct[h] = Some(result.correct),
                 !.return[h] = Some(result.return_pct),
                 !.verified[h] = TRUE]

\* The assignments of one loop body, for horizon h.
SetVerified(pred, h, result) ==
    [pred EXCEPT !.price_after[h] = Some(result.current_price),
                 !.correct[h] = Some(result.correct),
                 !.return[h] = Some(result.return_pct),
                 !.verified[h] = TRUE]

\* The iteration with "verified_h = True" outside the "if stock_data.price".
VerifyEntryMarksUnpriced(pred, h, stock_data) ==
    IF ~HasPrice(stock_data) THEN [pred EXCEPT !.verified[h] = TRUE]
    ELSE LET result == VerifyPrediction(pred, Val(stock_data.price))
         IN  IF result.raised THEN pred
             ELSE [pred EXCEPT !.price_after[h] = Some(result.current_price),
                               !.correct[h] = Some(result.correct),
                               !.return[h] = Some(result.return_pct),
                               !.verified[h] = TRUE]

\* One iteration of a horizon's loop: the row afterwards.
VerifyEntry(pred, h, stock_data) ==
    IF ~HasPrice(stock_data) THEN pred
    ELSE LET result == VerifyPrediction(pred, Val(stock_data.price))
         IN  IF result.raised THEN pred ELSE SetVerified(pred, h, result)

\* Whether the iteration reached "results[verified_h] += 1".
Counted(pred, stock_data) ==
    HasPrice(stock_data) /\ ~VerifyPrediction(pred, Val(stock_data.price)).raised

\* Whether the iteration ended in the except branch.
Raised(pred, stock_data) ==
    HasPrice(stock_data) /\ VerifyPrediction(pred, Val(stock_data.price)).raised

\* The loops giving up on a row at its first lookup without a price.
VerifyRowStopsAtFailure(pred, i, fetch) ==
    LET due(h) == <<i, h>> \in DOMAIN fetch
        failed(h) == due(h) /\ ~HasPrice(fetch[<<i, h>>])
        p1 == IF due(1) THEN VerifyEntry(pred, 1, fetch[<<i, 1>>]) ELSE pred
        p7 == IF due(7) /\ ~failed(1)
              THEN VerifyEntry(p1, 7, fetch[<<i, 7>>]) ELSE p1
    IN  IF due(30) /\ ~failed(1) /\ ~failed(7)
        THEN VerifyEntry(p7, 30, fetch[<<i, 30>>]) ELSE p7

\* The three loops on one row (they touch the rows independently).
VerifyRow(pred, i, fetch) ==
    LET p1 == IF <<i, 1>> \in DOMAIN fetch
              THEN VerifyEntry(pred, 1, fetch[<<i, 1>>]) ELSE pred
        p7 == IF <<i, 7>> \in DOMAIN fetch
              THEN VerifyEntry(p1, 7, fetch[<<i, 7>>]) ELSE p1
    IN  IF <<i, 30>> \in DOMAIN fetch
        THEN VerifyEntry(p7, 30, fetch[<<i, 30>>]) ELSE p7

\* results["errors"] of one horizon's loop, in row order.
HorizonErrors(ledger, h, fetch) ==
    LET idx == [i \in Ids(ledger) |-> i]
        hit(i) == <<i, h>> \in DOMAIN fetch /\ Raised(ledger[i], fetch[<<i, h>>])
        bad == SelectSeq(idx, hit)
    IN  [k \in 1 .. Len(bad) |-> <<h, ledger[bad[k]].ticker, "division by zero">>]

\* The dict run_verification returns.
RunResults(ledger, fetch) ==
    [ verified |->
        [h \in Horizons |->
            Cardinality({ i \in Ids(ledger) :
                <<i, h>> \in DOMAIN fetch /\ Counted(ledger[i], fetch[<<i, h>>]) })],
      errors |-> HorizonErrors(ledger, 1, fetch)
                    \o HorizonErrors(ledger, 7, fetch)
                    \o HorizonErrors(ledger, 30, fetch) ]

(***************************************************************************)
(* update_verification_stats.                                              *)
(***************************************************************************)
VerifiedRows(ledger, h) == { i \in Ids(ledger) : ledger[i].verified[h] }

\* "if p.correct_h": None and False are both false.
CorrectRows(ledger, h) ==
    { i \in VerifiedRows(ledger, h) : ledger[i].correct[h] = Some(TRUE) }

RECURSIVE SumReturns(_, _, _)
\* sum(p.return_h for p in verified_h if p.return_h), in hundredths.
SumReturns(ledger, h, rows) ==
    IF rows = {} THEN 0
    ELSE LET i == CHOOSE j \in rows : TRUE
             r == IF IsNone(ledger[i].return[h]) THEN 0 ELSE Val(ledger[i].return[h])
         IN  r + SumReturns(ledger, h, rows \ {i})

\* accuracy_h as stored: "round(accuracy_h, 1) if accuracy_h else None"; the
\* ratio 0.0 is false, so it is stored as None.
StoredAccuracy(verified, correct) ==
    IF verified = 0 \/ correct = 0 THEN None
    ELSE Some(RoundHalfEven(correct * 1000, verified))

\* avg_return_h as stored: "round(avg_return_h, 2) if avg_return_h else None".
StoredAvgReturn(verified, sum) ==
    IF verified = 0 \/ sum = 0 THEN None
    ELSE Some(RoundHalfEven(sum, verified))

\* The gate with ">" for ">=" on the accuracy.
IsUnlockedStrict(verified7, correct7) ==
    /\ verified7 >= MinPredictions
    /\ correct7 # 0
    /\ correct7 * 100 > MinAccuracy * verified7

\* "len(verified_7d) >= 50" and "accuracy_7d and accuracy_7d >= 55", on the
\* accuracy before it is rounded.
IsUnlocked(verified7, correct7) ==
    /\ verified7 >= MinPredictions
    /\ correct7 # 0
    /\ correct7 * 100 >= MinAccuracy * verified7

\* unlock_reason: the message and the numbers formatted into it.
UnlockReason(verified7, correct7) ==
    IF verified7 >= MinPredictions
    THEN IF IsUnlocked(verified7, correct7)
         THEN <<"Achieved", RoundHalfEven(correct7 * 1000, verified7), verified7>>
         ELSE <<"Accuracy", RoundHalfEven(correct7 * 1000, verified7), verified7>>
    ELSE <<"Need", MinPredictions - verified7, verified7>>

\* The VerificationStats row built from the counts and sums of the ledger.
StatsRow(t, total, verified, correct, sum) ==
    [ calculated_at |-> t,
      total_predictions |-> total,
      verified_count |-> verified,
      correct_count |-> correct,
      accuracy |-> [h \in Horizons |-> StoredAccuracy(verified[h], correct[h])],
      avg_return |-> [h \in Horizons |-> StoredAvgReturn(verified[h], sum[h])],
      hypothetical_return_total |->
          IF verified[7] = 0 \/ sum[7] = 0 THEN None ELSE Some(sum[7]),
      is_unlocked |-> IsUnlocked(verified[7], correct[7]),
      unlock_reason |-> UnlockReason(verified[7], correct[7]) ]

\* update_verification_stats with the total counting the rows not yet verified
\* after 1 day.
UpdateVerificationStatsPendingTotal(ledger, t) ==
    StatsRow(t,
             Len(ledger) - Cardinality(VerifiedRows(ledger, 1)),
             [h \in Horizons |-> Cardinality(VerifiedRows(ledger, h))],
             [h \in Horizons |-> Cardinality(CorrectRows(ledger, h))],
             [h \in Horizons |-> SumReturns(ledger, h, VerifiedRows(ledger, h))])

\* update_verification_stats
UpdateVerificationStats(ledger, t) ==
    StatsRow(t,
             Len(ledger),
             [h \in Horizons |-> Cardinality(VerifiedRows(ledger, h))],
             [h \in Horizons |-> Cardinality(CorrectRows(ledger, h))],
             [h \in Horizons |-> SumReturns(ledger, h, VerifiedRows(ledger, h))])

(***************************************************************************)
(* get_latest_stats: ORDER BY calculated_at DESC ... first().  Rows with   *)
(* the same calculated_at come back in an order the database chooses, so   *)
(* any of the newest rows can be the one returned.  0 is "no row".         *)
(***************************************************************************)
LatestStatsIds(table) ==
    IF table = <<>> THEN {0}
    ELSE { k \in 1 .. Len(table) :
             \A j \in 1 .. Len(table) : table[j].calculated_at <= table[k].calculated_at }

(***************************************************************************)
(* Scores.  The program computes in binary floating point; the model       *)
(* computes the same expressions on exact rationals [num, den], den > 0,   *)
(* kept in lowest terms.                                                   *)
(***************************************************************************)
RECURSIVE GCD(_, _)
GCD(a, b) == IF b = 0 THEN a ELSE GCD(b, a % b)

Abs(n) == IF n < 0 THEN -n ELSE n

Rat(n, d) ==
    LET g == GCD(Abs(n), d)
    IN  [num |-> n \div g, den |-> d \div g]

RatLess(a, b) == a.num * b.den < b.num * a.den
RatLeq(a, b) == a.num * b.den <= b.num * a.den
RatAdd(a, b) == Rat(a.num * b.den + b.num * a.den, a.den * b.den)
RatMul(a, b) == Rat(a.num * b.num, a.den * b.den)
Zero == Rat(0, 1)
One == Rat(1, 1)
MinusOne == Rat(-1, 1)

\* max(-1.0, min(1.0, x))
Clamp(x) == IF RatLess(One, x) THEN One ELSE IF RatLess(x, MinusOne) THEN MinusOne ELSE x

\* "if x": a float is false when it is 0.0
Truthy(x) == x.num # 0

(***************************************************************************)
(* main.py and strategy.py: the stored state of the drawdown strategy and  *)
(* the price cache of its DrawdownStrategy object.                         *)
(***************************************************************************)
\* What load_state returns when there is no state file, and what reset_state
\* saves.
InitialState ==
    [positions |-> <<>>, last_buy_date |-> None, total_invested |-> Zero,
     cash_reserve |-> 2000]

\* _price_cache and _cache_time after __init__.
NoCache == [price_cache |-> None, cache_time |-> None]

(***************************************************************************)
(* The state machine.                                                      *)
(***************************************************************************)
NoRun ==
    [ ran |-> FALSE, at |-> 0, after |-> <<>>, failed |-> {}, snapshot |-> 0,
      results |-> [verified |-> [h \in Horizons |-> 0], errors |-> <<>>] ]

Init ==
    /\ preds = <<>>
    /\ stats = <<>>
    /\ now = 0
    /\ market \in [Tickers -> Quotes]
    /\ lastRun = NoRun
    /\ latest = [seen |-> 0, id |-> 0]
    /\ digests = <<>>
    /\ state = InitialState
    /\ cache = NoCache
    /\ clock = 0
    /\ input = None
    /\ output = None

\* log_prediction, as generate_digest calls it for a pick with a price.
LogPrediction(pick) ==
    /\ Len(preds) < MaxPreds
    /\ market[pick.ticker] # 0
    /\ preds' = Append(preds, Prediction(pick, market[pick.ticker], now))
    /\ UNCHANGED <<stats, now, market, lastRun, latest, digests, state, cache, clock,
                 input, output>>

\* run_verification: the three loops, the commit and update_verification_stats.
RunVerification(fetch) ==
    /\ Len(stats) < MaxStats
    /\ preds' = [i \in Ids(preds) |-> VerifyRow(preds[i], i, fetch)]
    /\ stats' = Append(stats, UpdateVerificationStats(preds', now))
    /\ lastRun' = [ ran |-> TRUE, at |-> now, after |-> preds',
                    failed |-> { e \in DOMAIN fetch : ~HasPrice(fetch[e]) },
                    snapshot |-> Len(stats'),
                    results |-> RunResults(preds, fetch) ]
    /\ UNCHANGED <<now, market, latest, digests, state, cache, clock,
                 input, output>>

\* The answers the lookups of one pass get: one per due (row, horizon).
Fetches(ledger, t, quote) ==
    { [e \in DueEntries(ledger, t) |-> FetchStockData(g[e], quote[ledger[e[1]].ticker])] :
        g \in { l \in [DueEntries(ledger, t) -> Lookups] :
                   Cardinality({ e \in DOMAIN l : l[e] # "price" }) <= MaxFailed } }

RunVerificationCall ==
    \E fetch \in Fetches(preds, now, market) : RunVerification(fetch)

\* POST /recalculate: update_verification_stats alone.
Recalculate ==
    /\ Len(stats) < MaxStats
    /\ stats' = Append(stats, UpdateVerificationStats(preds, now))
    /\ UNCHANGED <<preds, now, market, lastRun, latest, digests, state, cache, clock,
                 input, output>>

\* get_latest_stats.
GetLatestStats ==
    /\ \E k \in LatestStatsIds(stats) : latest' = [seen |-> Len(stats), id |-> k]
    /\ UNCHANGED <<preds, stats, now, market, lastRun, digests, state, cache, clock,
                 input, output>>

\* Time passes.
Advance(t, quote) ==
    /\ t > now
    /\ now' = t
    /\ market' = quote
    /\ UNCHANGED <<preds, stats, lastRun, latest, digests, state, cache, clock,
                 input, output>>

Next ==
    \/ \E pick \in Picks : LogPrediction(pick)
    \/ RunVerificationCall
    \/ Recalculate
    \/ GetLatestStats
    \/ \E t \in Days, quote \in [Tickers -> Quotes] : Advance(t, quote)

Spec == Init /\ [][Next]_vars

(***************************************************************************)
(* verify_prediction on its own: every direction, price at prediction and  *)
(* current price of the price points.                                      *)
(***************************************************************************)
PricePoints == (1 .. MaxPrice) \cup {32, 33, 100, 110}

IdleLedger ==
    /\ preds = <<>>
    /\ stats = <<>>
    /\ now = 0
    /\ market = [t \in Tickers |-> 100]
    /\ lastRun = NoRun
    /\ latest = [seen |-> 0, id |-> 0]
    /\ digests = <<>>
    /\ state = InitialState
    /\ cache = NoCache
    /\ clock = 0

InitVerify ==
    /\ IdleLedger
    /\ \E pick \in Picks, p \in PricePoints, c \in PricePoints :
           input = Some([prediction |-> Prediction(pick, p, 0), current_price |-> c])
    /\ output = None

ApplyVerifyPrediction ==
    /\ output = None
    /\ output' = Some(VerifyPrediction(Val(input).prediction, Val(input).current_price))
    /\ UNCHANGED <<preds, stats, now, market, lastRun, latest, digests, state, cache, clock,
                 input>>

SpecVerify == InitVerify /\ [][ApplyVerifyPrediction]_vars

(***************************************************************************)
(* The statistics row on its own: update_verification_stats reads the      *)
(* ledger only through the count of rows and, per horizon, the number of   *)
(* verified rows, of correct rows and the sum of the returns.  The 7-day   *)
(* counts range over every pair up to MaxVerified; the 1-day figures are   *)
(* all wrong or all right, the 30-day figures absent or all right.  Every  *)
(* correct row returned +10.00 %, every other row -9.09 %.                 *)
(***************************************************************************)
ReturnsOf(verified, correct) == correct * 1000 - (verified - correct) * 909

StatsInputs ==
    { [ total |-> MaxVerified,
        verified |-> [h \in Horizons |->
                        IF h = 7 THEN v7 ELSE IF h = 1 THEN MaxVerified ELSE v30],
        correct |-> [h \in Horizons |->
                        IF h = 7 THEN c7 ELSE IF h = 1 THEN c1 ELSE v30],
        sum |-> [h \in Horizons |->
                        IF h = 7 THEN ReturnsOf(v7, c7)
                        ELSE IF h = 1 THEN ReturnsOf(MaxVerified, c1)
                        ELSE ReturnsOf(v30, v30)] ] :
        v7 \in 0 .. MaxVerified, c7 \in 0 .. MaxVerified,
        c1 \in {0, MaxVerified}, v30 \in {0, MaxVerified} }

InitStats ==
    /\ IdleLedger
    /\ input \in { Some(x) : x \in { y \in StatsInputs : y.correct[7] <= y.verified[7] } }
    /\ output = None

ApplyStatsRow ==
    /\ output = None
    /\ output' = Some(StatsRow(now, Val(input).total, Val(input).verified,
                               Val(input).correct, Val(input).sum))
    /\ UNCHANGED <<preds, stats, now, market, lastRun, latest, digests, state, cache, clock,
                 input>>

SpecStats == InitStats /\ [][ApplyStatsRow]_vars

(***************************************************************************)
(* scoring.py: get_signal_from_score.                                      *)
(***************************************************************************)
\* The bands with ">" for ">=" at 30.
GetSignalFromScoreOpenBuy(score) ==
    IF RatLeq(Rat(60, 1), score) THEN "Strong Buy"
    ELSE IF RatLess(Rat(30, 1), score) THEN "Buy"
    ELSE IF RatLeq(Rat(-30, 1), score) THEN "Hold"
    ELSE IF RatLeq(Rat(-60, 1), score) THEN "Sell"
    ELSE "Strong Sell"

GetSignalFromScore(score) ==
    IF RatLeq(Rat(60, 1), score) THEN "Strong Buy"
    ELSE IF RatLeq(Rat(30, 1), score) THEN "Buy"
    ELSE IF RatLeq(Rat(-30, 1), score) THEN "Hold"
    ELSE IF RatLeq(Rat(-60, 1), score) THEN "Sell"
    ELSE "Strong Sell"

(***************************************************************************)
(* get_signal_from_score on its own: every score of the range in steps of  *)
(* one half.                                                               *)
(***************************************************************************)
ScorePoints == { Rat(k, 2) : k \in (-2 * MaxScore) .. (2 * MaxScore) }

InitSignal ==
    /\ IdleLedger
    /\ input \in { Some([score |-> s]) : s \in ScorePoints }
    /\ output = None

ApplyGetSignalFromScore ==
    /\ output = None
    /\ output' = Some([signal |-> GetSignalFromScore(Val(input).score)])
    /\ UNCHANGED <<preds, stats, now, market, lastRun, latest, digests, state, cache, clock,
                 input>>

SpecSignal == InitSignal /\ [][ApplyGetSignalFromScore]_vars

(***************************************************************************)
(* technicals.py.  A history is what get_historical_data and pandas hand   *)
(* to calc_technicals: the number of bars of the 3-month history (0: None  *)
(* or empty), its last close, the last values of the rolling computations  *)
(* (None is NaN) and the 1-year high and low (None: no 1-year data).       *)
(***************************************************************************)
History(bars, close, rsi, mean_20, mean_50, year) ==
    [bars |-> bars, close |-> close, rsi |-> rsi,
     mean_20 |-> mean_20, mean_50 |-> mean_50, year |-> year]

\* A function result: a returned value or a raised exception.
Returned(v) == [raised |-> FALSE, value |-> v]
RaisedException(name) == [raised |-> TRUE, exception |-> name]

\* calculate_rsi, period 14: None under 15 prices or when the last value is NaN.
CalculateRsi(history) ==
    IF history.bars < RsiPeriod + 1 THEN None ELSE history.rsi

\* calculate_sma: None under "period" prices or when the last value is NaN.
CalculateSma(history, period) ==
    IF history.bars < period THEN None
    ELSE IF period = ShortPeriod THEN history.mean_20 ELSE history.mean_50

GetRsiSignal(rsi) ==
    IF rsi >= 70 THEN <<"Overbought", Rat(-5, 10)>>
    ELSE IF rsi >= 60 THEN <<"Bullish", Rat(3, 10)>>
    ELSE IF rsi <= 30 THEN <<"Oversold", Rat(5, 10)>>
    ELSE IF rsi <= 40 THEN <<"Bearish", Rat(-3, 10)>>
    ELSE <<"Neutral", Zero>>

GetSmaSignal(sma_20, sma_50, current_price) ==
    IF sma_20 > sma_50
    THEN IF current_price > sma_20 THEN <<"Strong Bullish", Rat(8, 10)>>
         ELSE <<"Bullish", Rat(4, 10)>>
    ELSE IF current_price < sma_20 THEN <<"Strong Bearish", Rat(-8, 10)>>
         ELSE <<"Bearish", Rat(-4, 10)>>

GetRangeSignal(price_pct) ==
    IF RatLeq(Rat(90, 1), price_pct) THEN <<"Near 52w High", Rat(-3, 10)>>
    ELSE IF RatLeq(Rat(70, 1), price_pct) THEN <<"Upper Range", Rat(2, 10)>>
    ELSE IF RatLeq(price_pct, Rat(10, 1)) THEN <<"Near 52w Low", Rat(3, 10)>>
    ELSE IF RatLeq(price_pct, Rat(30, 1)) THEN <<"Lower Range", Rat(-2, 10)>>
    ELSE <<"Mid Range", Zero>>

NotAvailable == <<"N/A", Zero>>

\* The band of the weighted sum.
OverallSignal(overall_score) ==
    IF RatLeq(Rat(4, 10), overall_score) THEN "Bullish"
    ELSE IF RatLeq(Rat(1, 10), overall_score) THEN "Slightly Bullish"
    ELSE IF RatLeq(overall_score, Rat(-4, 10)) THEN "Bearish"
    ELSE IF RatLeq(overall_score, Rat(-1, 10)) THEN "Slightly Bearish"
    ELSE "Neutral"

\* rsi_score * 0.3 + sma_score * 0.5 + range_score * 0.2
OverallScore(rsi_score, sma_score, range_score) ==
    RatAdd(RatAdd(RatMul(rsi_score, Rat(3, 10)), RatMul(sma_score, Rat(5, 10))),
           RatMul(range_score, Rat(2, 10)))

TechnicalSignals(rsi, rsi_signal, sma_20, sma_50, sma_signal, price_vs_52w, range_signal, overall_signal, score, error) ==
    [rsi |-> rsi, rsi_signal |-> rsi_signal, sma_20 |-> sma_20, sma_50 |-> sma_50,
     sma_signal |-> sma_signal, price_vs_52w |-> price_vs_52w,
     range_signal |-> range_signal, overall_signal |-> overall_signal,
     score |-> score, error |-> error]

\* calc_technicals.  The division of the range position is a division of
\* Python floats: it raises ZeroDivisionError when the 1-year high equals
\* the 1-year low.
CalcTechnicals(history) ==
    IF history.bars = 0
    THEN Returned(TechnicalSignals(None, None, None, None, None, None, None, None,
                                   None, Some("No historical data available")))
    ELSE IF ~IsNone(history.year) /\ Val(history.year).high = Val(history.year).low
    THEN RaisedException("ZeroDivisionError")
    ELSE
    LET current_price == history.close
        rsi == CalculateRsi(history)
        sma_20 == CalculateSma(history, ShortPeriod)
        sma_50 == CalculateSma(history, LongPeriod)
        price_vs_52w ==
            IF IsNone(history.year) THEN None
            ELSE Some(Rat((current_price - Val(history.year).low) * 100,
                          Val(history.year).high - Val(history.year).low))
        r == IF IsNone(rsi) THEN NotAvailable ELSE GetRsiSignal(Val(rsi))
        m == IF IsNone(sma_20) \/ IsNone(sma_50) THEN NotAvailable
             ELSE GetSmaSignal(Val(sma_20), Val(sma_50), current_price)
        g == IF IsNone(price_vs_52w) THEN NotAvailable
             ELSE GetRangeSignal(Val(price_vs_52w))
        overall_score == OverallScore(r[2], m[2], g[2])
    IN  Returned(TechnicalSignals(rsi, Some(r[1]), sma_20, sma_50, Some(m[1]),
                                  price_vs_52w, Some(g[1]),
                                  Some(OverallSignal(overall_score)),
                                  Some(overall_score), None))

(***************************************************************************)
(* calc_technicals on its own.                                             *)
(***************************************************************************)
BarCounts == {0, 1, RsiPeriod, RsiPeriod + 1, ShortPeriod - 1, ShortPeriod,
              LongPeriod - 1, LongPeriod, MaxBars}
RsiValues == {None, Some(30), Some(35), Some(50), Some(60), Some(70)}
Means == {Some(90), Some(100), Some(110)}
Closes == {84, 90, 100, 110, 120}

\* The 1-year data of a history whose last close is c: none, a range that
\* holds c, or a flat year.
Years(c) == {None, Some([high |-> 120, low |-> 80]), Some([high |-> c, low |-> c])}

Histories ==
    { History(n, c, r, m, Some(100), y) :
        n \in BarCounts, c \in Closes, r \in RsiValues, m \in Means,
        y \in UNION { Years(d) : d \in Closes } }

InitTechnicals ==
    /\ IdleLedger
    /\ input \in { Some(x) : x \in { h \in Histories : h.year \in Years(h.close) } }
    /\ output = None

ApplyCalcTechnicals ==
    /\ output = None
    /\ output' = Some(CalcTechnicals(Val(input)))
    /\ UNCHANGED <<preds, stats, now, market, lastRun, latest, digests, state, cache, clock,
                 input>>

SpecTechnicals == InitTechnicals /\ [][ApplyCalcTechnicals]_vars

(***************************************************************************)
(* sentiment.py.  A headline is the list of its whitespace-separated       *)
(* tokens in lower case; a token is <<word, punctuation>>: the word left   *)
(* by strip(".,!?;:'\"()[]") and whether punctuation was attached to it.   *)
(* The lexicons are the entries of the program's that the model's tokens   *)
(* can hit.                                                                *)
(***************************************************************************)
PositiveWords == {"surge", "record", "profit", "good"}
NegativeWords == {"fraud", "investigation", "fail", "loss"}
Amplifiers == {"very", "record"}
Negators == {"not", "fail"}

Plain(word) == <<word, FALSE>>
Punctuated(word) == <<word, TRUE>>

\* The number of tokens of the headline whose stripped word is in the lexicon.
Count(text, lexicon) == Cardinality({ k \in 1 .. Len(text) : text[k][1] \in lexicon })

\* "words_set & AMPLIFIERS": on the tokens as split, punctuation included.
Present(text, lexicon) == \E k \in 1 .. Len(text) : ~text[k][2] /\ text[k][1] \in lexicon

\* score_sentiment without the final clamp.
ScoreSentimentUnclamped(text) ==
    LET positive_count == Count(text, PositiveWords)
        negative_count == Count(text, NegativeWords \ PositiveWords)
        total == positive_count + negative_count
        base == Rat(positive_count - negative_count, IF total = 0 THEN 1 ELSE total)
        amplified == IF Present(text, Amplifiers) THEN RatMul(base, Rat(3, 2)) ELSE base
        negated == IF Present(text, Negators) THEN RatMul(amplified, Rat(-1, 2))
                   ELSE amplified
    IN  IF text = <<>> \/ total = 0 THEN Zero ELSE negated

\* score_sentiment.
ScoreSentiment(text) ==
    LET positive_count == Count(text, PositiveWords)
        negative_count == Count(text, NegativeWords \ PositiveWords)
        total == positive_count + negative_count
        base == Rat(positive_count - negative_count, IF total = 0 THEN 1 ELSE total)
        amplified == IF Present(text, Amplifiers) THEN RatMul(base, Rat(3, 2)) ELSE base
        negated == IF Present(text, Negators) THEN RatMul(amplified, Rat(-1, 2))
                   ELSE amplified
    IN  IF text = <<>> \/ total = 0 THEN Zero ELSE Clamp(negated)

RECURSIVE SumScores(_)
SumScores(texts) ==
    IF texts = <<>> THEN Zero
    ELSE RatAdd(ScoreSentiment(Head(texts)), SumScores(Tail(texts)))

\* aggregate_sentiment: None for no texts, else the mean.
AggregateSentiment(texts) ==
    IF texts = <<>> THEN None
    ELSE Some(RatMul(SumScores(texts), Rat(1, Len(texts))))

(***************************************************************************)
(* aggregate_sentiment on its own: every list of up to MaxHeadlines        *)
(* headlines of up to MaxWords tokens.  The tokens hit each lexicon, the   *)
(* word of both the positive list and the amplifiers ("record"), the word  *)
(* of both the negative list and the negators ("fail"), and a word of no   *)
(* list; the words that are amplifiers or negators also come with          *)
(* punctuation attached.                                                   *)
(***************************************************************************)
Tokens ==
    { Plain(w) : w \in {"surge", "record", "fraud", "fail", "not", "very", "stock"} }
        \cup { Punctuated(w) : w \in {"record", "fail", "not"} }

Headlines == UNION { [1 .. n -> Tokens] : n \in 0 .. MaxWords }

InitSentiment ==
    /\ IdleLedger
    /\ input \in { Some([texts |-> t]) :
                      t \in UNION { [1 .. n -> Headlines] : n \in 0 .. MaxHeadlines } }
    /\ output = None

ApplyAggregateSentiment ==
    /\ output = None
    /\ output' = Some([aggregate |-> AggregateSentiment(Val(input).texts)])
    /\ UNCHANGED <<preds, stats, now, market, lastRun, latest, digests, state, cache, clock,
                 input>>

SpecSentiment == InitSentiment /\ [][ApplyAggregateSentiment]_vars

(***************************************************************************)
(* scoring.py.                                                             *)
(***************************************************************************)
\* SECTOR_PE.get(sector, 20), for the sectors of the model.
SectorPe(sector) ==
    IF sector = Some("Technology") THEN 28
    ELSE IF sector = Some("Energy") THEN 12
    ELSE 20

\* calculate_fundamental_score with the clamp left out.
CalculateFundamentalScoreUnclamped(pe_ratio, sector) ==
    IF IsNone(pe_ratio) THEN Zero
    ELSE Rat(SectorPe(sector) - Val(pe_ratio), SectorPe(sector))

CalculateFundamentalScore(pe_ratio, sector) ==
    IF IsNone(pe_ratio) THEN Zero
    ELSE Clamp(Rat(SectorPe(sector) - Val(pe_ratio), SectorPe(sector)))

ScoreBreakdown(technical_score, sentiment_score, fundamental_score) ==
    [technical_score |-> technical_score, technical_weight |-> Rat(40, 100),
     sentiment_score |-> sentiment_score, sentiment_weight |-> Rat(30, 100),
     fundamental_score |-> fundamental_score, fundamental_weight |-> Rat(30, 100)]

StockScore(ticker, name, score, signal, breakdown, current_price, pe_ratio, explanation, error) ==
    [ticker |-> ticker, name |-> name, score |-> score, signal |-> signal,
     breakdown |-> breakdown, current_price |-> current_price,
     pe_ratio |-> pe_ratio, explanation |-> explanation, error |-> error]

\* str.lower() on the overall signals of calc_technicals.
Lower(signal) ==
    CASE signal = "Bullish" -> "bullish"
      [] signal = "Slightly Bullish" -> "slightly bullish"
      [] signal = "Bearish" -> "bearish"
      [] signal = "Slightly Bearish" -> "slightly bearish"
      [] signal = "Neutral" -> "neutral"

\* '"Bullish" in overall_signal'
ContainsBullish(signal) == signal \in {"Bullish", "Slightly Bullish"}

\* The overall-direction sentence of generate_explanation.
DirectionSentence(ticker, name, score) ==
    IF RatLeq(Rat(30, 1), score) THEN <<name, ticker, "krijgt een positief signaal">>
    ELSE IF RatLeq(score, Rat(-30, 1)) THEN <<name, ticker, "krijgt een negatief signaal">>
    ELSE <<name, ticker, "is momenteel neutraal">>

\* The sentence on the technical picture; the empty sentence is dropped by
\* the join.  "{rsi:.0f}" of a whole number is the number.
TechnicalSentence(technicals) ==
    IF IsNone(technicals.overall_signal) \/ Val(technicals.overall_signal) = "Neutral"
    THEN <<>>
    ELSE IF ContainsBullish(Val(technicals.overall_signal))
    THEN IF ~IsNone(technicals.rsi) /\ Val(technicals.rsi) # 0
         THEN << <<"Technisch beeld is", Lower(Val(technicals.overall_signal)),
                   "met RSI op", Val(technicals.rsi)>> >>
         ELSE <<>>
    ELSE << <<"Technisch beeld is", Lower(Val(technicals.overall_signal))>> >>

SentimentSentence(sentiment_score) ==
    IF RatLess(Rat(2, 10), sentiment_score) THEN << <<"Nieuwssentiment is positief">> >>
    ELSE IF RatLess(sentiment_score, Rat(-2, 10)) THEN << <<"Nieuwssentiment is negatief">> >>
    ELSE <<>>

FundamentalSentence(fundamental_score) ==
    IF RatLess(Rat(2, 10), fundamental_score)
    THEN << <<"Waardering is aantrekkelijk vs sector">> >>
    ELSE IF RatLess(fundamental_score, Rat(-2, 10))
    THEN << <<"Waardering is duur vs sector">> >>
    ELSE <<>>

\* generate_explanation: the sentences, in order.
GenerateExplanation(ticker, name, score, technicals, sentiment_score, fundamental_score) ==
    << DirectionSentence(ticker, name, score) >>
        \o TechnicalSentence(technicals)
        \o SentimentSentence(sentiment_score)
        \o FundamentalSentence(fundamental_score)

\* What the data sources answer for one ticker during one scoring pass:
\* fetch_stock_data (with the P/E ratio of its quote), get_historical_data
\* and the titles of fetch_news_for_ticker.
World(stock_data, pe_ratio, history, headlines) ==
    [stock_data |-> stock_data, pe_ratio |-> pe_ratio, history |-> history,
     headlines |-> headlines]

\* "if stock_data.error": None and the empty string are both false.
HasError(stock_data) == ~IsNone(stock_data.error) /\ Val(stock_data.error) # ""

\* calculate_score past the error test: the factors, their weighted sum and
\* the result.
ScoreFromFactors(stock, world) ==
    LET technicals == CalcTechnicals(world.history)
        technical_score ==
            IF IsNone(technicals.value.score) \/ ~Truthy(Val(technicals.value.score))
            THEN Zero ELSE Val(technicals.value.score)
        sentiment_score ==
            IF world.headlines = <<>> THEN Zero
            ELSE Val(AggregateSentiment(world.headlines))
        fundamental_score == CalculateFundamentalScore(world.pe_ratio, stock.sector)
        combined_score ==
            RatAdd(RatAdd(RatMul(technical_score, Rat(40, 100)),
                          RatMul(sentiment_score, Rat(30, 100))),
                   RatMul(fundamental_score, Rat(30, 100)))
        final_score == RatMul(combined_score, Rat(100, 1))
    IN  IF technicals.raised THEN technicals
        ELSE Returned(StockScore(stock.ticker, stock.name, final_score,
                                 GetSignalFromScore(final_score),
                                 ScoreBreakdown(technical_score, sentiment_score,
                                                fundamental_score),
                                 world.stock_data.price, world.pe_ratio,
                                 GenerateExplanation(stock.ticker, stock.name,
                                                     final_score, technicals.value,
                                                     sentiment_score,
                                                     fundamental_score),
                                 None))

\* calculate_score.
CalculateScore(stock, world) ==
    IF HasError(world.stock_data)
    THEN Returned(StockScore(stock.ticker, stock.name, Zero, "Hold",
                             ScoreBreakdown(Zero, Zero, Zero),
                             None, None,
                             << <<"Geen data beschikbaar voor", stock.ticker>> >>,
                             world.stock_data.error))
    ELSE ScoreFromFactors(stock, world)

(***************************************************************************)
(* calculate_score on its own, over the answers the data sources can give  *)
(* for one ticker.  A failed lookup carries str(e) of its exception, which *)
(* is the empty string for an exception raised without a message.          *)
(***************************************************************************)
Stocks ==
    { [ticker |-> "AAPL", name |-> "Apple", sector |-> Some("Technology")],
      [ticker |-> "XYZ", name |-> "Xyz", sector |-> None] }

StockDatas ==
    { StockData(Some(100), None), NoPrice, NoData,
      StockData(None, Some("Connection reset")), StockData(None, Some("")) }

PeRatios == {None, Some(-5), Some(14), Some(60)}

ScoreHistories ==
    { h \in Histories :
        /\ h.bars \in {0, MaxBars}
        /\ h.rsi \in {None, Some(30), Some(70)}
        /\ h.mean_20 \in {Some(90), Some(110)}
        /\ h.close \in {84, 120}
        /\ h.year \in Years(h.close) }

\* "Stock surges on record profit", "Company faces fraud investigation",
\* "Not very good", "Profit record."
SampleHeadlines ==
    { <<Plain("stock"), Plain("surges"), Plain("on"), Plain("record"), Plain("profit")>>,
      <<Plain("company"), Plain("faces"), Plain("fraud"), Plain("investigation")>>,
      <<Plain("not"), Plain("very"), Plain("good")>>,
      <<Plain("profit"), Punctuated("record")>> }

HeadlineLists ==
    UNION { [1 .. n -> SampleHeadlines] : n \in 0 .. MaxHeadlines }

\* The lookup's P/E ratio comes with its quote: a failed lookup has none.
Worlds ==
    { World(d, pe, h, t) :
        d \in StockDatas, pe \in PeRatios, h \in ScoreHistories, t \in HeadlineLists }

ScoreWorlds == { w \in Worlds : IsNone(w.stock_data.error) \/ IsNone(w.pe_ratio) }

InitScore ==
    /\ IdleLedger
    /\ input \in { Some([stock |-> s, world |-> w]) : s \in Stocks, w \in ScoreWorlds }
    /\ output = None

ApplyCalculateScore ==
    /\ output = None
    /\ output' = Some(CalculateScore(Val(input).stock, Val(input).world))
    /\ UNCHANGED <<preds, stats, now, market, lastRun, latest, digests, state, cache, clock,
                 input>>

SpecScore == InitScore /\ [][ApplyCalculateScore]_vars

(***************************************************************************)
(* digest_generator.py: select_top_picks.                                  *)
(***************************************************************************)
Min(a, b) == IF a < b THEN a ELSE b
Max(a, b) == IF a > b THEN a ELSE b

\* seq[:stop] of Python, for any integer stop.
SliceTo(seq, stop) ==
    SubSeq(seq, 1, IF stop >= 0 THEN Min(stop, Len(seq)) ELSE Max(Len(seq) + stop, 0))

\* seq[start:] of Python, for any integer start; seq[-0:] is the whole list.
SliceFrom(seq, start) ==
    SubSeq(seq,
           (IF start >= 0 THEN Min(start, Len(seq)) ELSE Max(Len(seq) + start, 0)) + 1,
           Len(seq))

Reverse(seq) == [k \in 1 .. Len(seq) |-> seq[Len(seq) + 1 - k]]

\* x put into a list sorted by score descending, after the entries that
\* score the same: the sort is stable.
InsertDescending(sorted, x) ==
    LET ahead == { k \in 1 .. Len(sorted) : ~RatLess(sorted[k].score, x.score) }
        n == Cardinality(ahead)
    IN  SubSeq(sorted, 1, n) \o <<x>> \o SubSeq(sorted, n + 1, Len(sorted))

RECURSIVE SortedDescending(_)
\* sorted(valid_scores, key=lambda x: x.score, reverse=True)
SortedDescending(seq) ==
    IF seq = <<>> THEN <<>>
    ELSE InsertDescending(SortedDescending(SubSeq(seq, 1, Len(seq) - 1)), seq[Len(seq)])

IsValid(s) == IsNone(s.error)
IsPositive(s) == RatLess(Zero, s.score)
IsNegative(s) == RatLess(s.score, Zero)

\* select_top_picks with the sell picks taken from the head of the list.
SelectTopPicksSellFromHead(scores, top_n) ==
    LET sorted_scores == SortedDescending(SelectSeq(scores, IsValid))
    IN  [buy_picks |-> SelectSeq(SliceTo(sorted_scores, top_n), IsPositive),
         sell_picks |-> Reverse(SelectSeq(SliceTo(sorted_scores, top_n), IsNegative))]

SelectTopPicks(scores, top_n) ==
    LET valid_scores == SelectSeq(scores, IsValid)
        sorted_scores == SortedDescending(valid_scores)
    IN  [buy_picks |-> SelectSeq(SliceTo(sorted_scores, top_n), IsPositive),
         sell_picks |-> Reverse(SelectSeq(SliceFrom(sorted_scores, -top_n), IsNegative))]

(***************************************************************************)
(* select_top_picks on its own.  The scores are what calculate_score       *)
(* returns for the stocks of the universe, in the order of the universe,   *)
(* when a stock has no history and no news and its lookup fails or gives   *)
(* one of five P/E ratios: the score is 30, 15, 0, -15 or -30.             *)
(***************************************************************************)
Universe ==
    << [ticker |-> "AAPL", name |-> "Apple", sector |-> Some("Technology")],
       [ticker |-> "MSFT", name |-> "Microsoft", sector |-> Some("Technology")],
       [ticker |-> "NVDA", name |-> "Nvidia", sector |-> Some("Technology")],
       [ticker |-> "ORCL", name |-> "Oracle", sector |-> Some("Technology")],
       [ticker |-> "CSCO", name |-> "Cisco", sector |-> Some("Technology")] >>

NoHistory == History(0, 100, None, None, None, None)

SelectWorlds ==
    { World(StockData(Some(100), None), pe, NoHistory, <<>>) :
        pe \in {Some(-5), Some(14), None, Some(42), Some(60)} }
    \cup { World(NoData, None, NoHistory, <<>>) }

\* The scores a batch appends, in order.
ValuesOf(results) == [k \in 1 .. Len(results) |-> results[k].value]

HasReturned(result) == ~result.raised

\* score_all_stocks: a stock whose calculate_score raises is passed over.
ScoreAllStocks(stocks, worlds) ==
    ValuesOf(SelectSeq([k \in 1 .. Len(stocks) |->
                           CalculateScore(stocks[k], worlds[k])], HasReturned))

SelectInputs ==
    { [scores |-> ScoreAllStocks(SubSeq(Universe, 1, Len(w)), w), top_n |-> n] :
        w \in UNION { [1 .. m -> SelectWorlds] : m \in 0 .. MaxStocks },
        n \in 0 .. MaxTopN }

InitSelect ==
    /\ IdleLedger
    /\ input \in { Some(x) : x \in SelectInputs }
    /\ output = None

ApplySelectTopPicks ==
    /\ output = None
    /\ output' = Some(SelectTopPicks(Val(input).scores, Val(input).top_n))
    /\ UNCHANGED <<preds, stats, now, market, lastRun, latest, digests, state, cache, clock,
                 input>>

SpecSelect == InitSelect /\ [][ApplySelectTopPicks]_vars

(***************************************************************************)
(* digest_generator.py: format_pick_for_digest and generate_digest.        *)
(***************************************************************************)
\* format_pick_for_digest, budget 10000: the score rounded to one decimal
\* (in tenths) and the suggested position rounded to two (in cents).
FormatPickForDigest(pick) ==
    [ticker |-> pick.ticker, name |-> pick.name,
     score |-> RoundHalfEven(pick.score.num * 10, pick.score.den),
     signal |-> pick.signal, current_price |-> pick.current_price,
     suggested_position |-> RoundHalfEven(Abs(pick.score.num) * 1000, pick.score.den)]

FormatPicks(picks) == [k \in 1 .. Len(picks) |-> FormatPickForDigest(picks[k])]

\* "if pick.current_price": None and 0 are both false.
IsPriced(pick) == ~IsNone(pick.current_price) /\ Val(pick.current_price) # 0

\* The rows log_prediction appends for the priced picks of one direction.
LoggedPicks(picks, direction, t) ==
    LET priced == SelectSeq(picks, IsPriced)
    IN  [k \in 1 .. Len(priced) |->
            Prediction([ticker |-> priced[k].ticker, company_name |-> priced[k].name,
                        direction |-> direction, score |-> priced[k].score],
                       Val(priced[k].current_price), t)]

\* The digests table after today's digest is saved: the row of the date is
\* overwritten if there is one, else a row is added.
SaveDigest(table, date, data) ==
    IF \E k \in 1 .. Len(table) : table[k].date = date
    THEN [k \in 1 .. Len(table) |->
            IF table[k].date = date THEN [table[k] EXCEPT !.data = data] ELSE table[k]]
    ELSE Append(table, [date |-> date, data |-> data])

\* The stocks load_tracked_stocks returns.
TrackedStocks == SubSeq(Universe, 1, MaxTracked)

\* What the data sources answer during a digest run, per stock: a quote with
\* a low P/E, one with a high P/E, a failed lookup, a quote without a price,
\* and a 1-year history that is flat.
DigestWorlds ==
    { World(StockData(Some(100), None), Some(14), NoHistory, <<>>),
      World(StockData(Some(100), None), Some(42), NoHistory, <<>>),
      World(NoData, None, NoHistory, <<>>),
      World(NoPrice, Some(14), NoHistory, <<>>),
      World(StockData(Some(100), None), Some(14),
            History(MaxBars, 100, Some(50), Some(100), Some(100),
                    Some([high |-> 100, low |-> 100])), <<>>) }

\* generate_digest(save_to_db=True): what it returns and records; input and
\* output keep the answers of the data sources, the scores and the picks.
GenerateDigest(worlds) ==
    \E scores \in {ScoreAllStocks(TrackedStocks, worlds)} :
    \E picks \in {SelectTopPicks(scores, TopN)} :
    \E data \in {[buy |-> FormatPicks(picks.buy_picks),
                  sell |-> FormatPicks(picks.sell_picks)]} :
        /\ digests' = SaveDigest(digests, now, data)
        /\ preds' = preds \o LoggedPicks(picks.buy_picks, "buy", now)
                          \o LoggedPicks(picks.sell_picks, "sell", now)
        /\ input' = Some([stocks |-> TrackedStocks, worlds |-> worlds])
        /\ output' = Some([scores |-> scores, buy_picks |-> picks.buy_picks,
                           sell_picks |-> picks.sell_picks,
                           digest |-> [date |-> now] @@ data])
        /\ UNCHANGED <<stats, now, market, lastRun, latest, state, cache, clock>>

\* A digest run, while the ledger is within the bound.
GenerateDigestCall ==
    /\ Len(preds) < MaxLedger
    /\ \E worlds \in [1 .. Len(TrackedStocks) -> DigestWorlds] : GenerateDigest(worlds)

\* The next day.
NextDay ==
    /\ now < MaxDay
    /\ now' = now + 1
    /\ UNCHANGED <<preds, stats, market, lastRun, latest, digests, state, cache, clock,
                 input, output>>

InitDigest ==
    /\ IdleLedger
    /\ input = None
    /\ output = None

NextDigest == GenerateDigestCall \/ NextDay

SpecDigest == InitDigest /\ [][NextDigest]_vars

(***************************************************************************)
(* routers/verification.py: GET /status.                                   *)
(***************************************************************************)
\* is_system_unlocked, given the row its get_latest_stats returned (0: none).
IsSystemUnlocked(table, k) ==
    IF k = 0 THEN [unlocked |-> FALSE, reason |-> <<"NoData">>]
    ELSE [unlocked |-> table[k].is_unlocked, reason |-> table[k].unlock_reason]

\* SimplifiedStats of a row.
SimplifiedStats(row) ==
    [ total_predictions |-> row.total_predictions,
      verified |-> row.verified_count,
      accuracy |-> row.accuracy,
      avg_return |-> row.avg_return,
      is_unlocked |-> row.is_unlocked,
      unlock_reason |-> row.unlock_reason,
      last_updated |-> row.calculated_at ]

\* The response of get_system_status when is_system_unlocked read row k and
\* the handler's own get_latest_stats read row j; min_accuracy 55.0 is in
\* tenths of a percent, as the stored accuracies are.
SystemStatusResponse(table, k, j) ==
    [ is_unlocked |-> IsSystemUnlocked(table, k).unlocked,
      mode |-> IF IsSystemUnlocked(table, k).unlocked THEN "active" ELSE "observation",
      stats |-> IF j = 0 THEN None ELSE Some(SimplifiedStats(table[j])),
      unlock_requirements |->
          [ min_predictions |-> 50,
            min_accuracy |-> 550,
            current_predictions |-> IF j = 0 THEN 0 ELSE table[j].verified_count[7],
            current_accuracy |-> IF j = 0 THEN None ELSE table[j].accuracy[7] ] ]

\* get_system_status: two queries for the latest row, then the response.
GetSystemStatus ==
    /\ \E k \in LatestStatsIds(stats), j \in LatestStatsIds(stats) :
          output' = Some(SystemStatusResponse(stats, k, j))
    /\ UNCHANGED <<preds, stats, now, market, lastRun, latest, digests, state, cache, clock,
                 input>>

(***************************************************************************)
(* get_system_status on its own, over statistics tables of up to MaxStats  *)
(* snapshots taken at times 0 .. MaxDay.  The 7-day counts are 0, 49 or 50 *)
(* verified with 0, 27 or 28 of them correct, and they never decrease from *)
(* one snapshot to the next, nor does the time.                            *)
(***************************************************************************)
StatusInputs ==
    { x \in StatsInputs :
        /\ x.verified[7] \in {0, MinPredictions - 1, MinPredictions}
        /\ x.correct[7] \in {0, 27, 28}
        /\ x.correct[7] <= x.verified[7]
        /\ x.correct[1] = 0
        /\ x.verified[30] = 0 }

StatusRows ==
    { StatsRow(t, x.total, x.verified, x.correct, x.sum) :
        t \in 0 .. MaxDay, x \in StatusInputs }

StatusTables ==
    { table \in UNION { [1 .. n -> StatusRows] : n \in 0 .. MaxStats } :
        \A k \in 1 .. Len(table) - 1 :
            /\ table[k].calculated_at <= table[k + 1].calculated_at
            /\ table[k].verified_count[7] <= table[k + 1].verified_count[7]
            /\ table[k].correct_count[7] <= table[k + 1].correct_count[7] }

InitStatus ==
    /\ preds = <<>>
    /\ stats \in StatusTables
    /\ now = MaxDay
    /\ market \in [Tickers -> {100}]
    /\ lastRun = NoRun
    /\ latest = [seen |-> 0, id |-> 0]
    /\ digests = <<>>
    /\ state = InitialState
    /\ cache = NoCache
    /\ clock = 0
    /\ input = None
    /\ output = None

SpecStatus == InitStatus /\ [][GetSystemStatus]_vars

(***************************************************************************)
(* strategy.py: DrawdownStrategy.  Price data is what the strategy reads   *)
(* of the 1-year history: its last close and the highest close of the last *)
(* 252 days.  Euro amounts and shares are exact rationals.                 *)
(***************************************************************************)
RatSub(a, b) == RatAdd(a, RatMul(MinusOne, b))

\* a / b for b # 0
RatDiv(a, b) ==
    IF b.num > 0 THEN Rat(a.num * b.den, a.den * b.num)
    ELSE Rat(-(a.num * b.den), a.den * (-b.num))

RatMin(a, b) == IF RatLess(b, a) THEN b ELSE a

PriceData(current, peak) == [current |-> current, peak |-> peak]

\* datetime.now().date(), in days
DateOf(t) == t \div SecondsPerDay

\* timedelta.seconds: the seconds within the day, without the days
SecondsOf(delta) == delta % SecondsPerDay

\* _get_price_data at time t, when the price source would answer "fetched":
\* the data frame returned and the cache afterwards.
GetPriceData(c, t, fetched) ==
    IF ~IsNone(c.price_cache) /\ ~IsNone(c.cache_time)
       /\ SecondsOf(t - Val(c.cache_time)) < CacheTtl
    THEN [df |-> Val(c.price_cache), cache |-> c]
    ELSE [df |-> fetched, cache |-> [price_cache |-> Some(fetched), cache_time |-> Some(t)]]

\* get_drawdown: ((peak - current) / peak) * 100
DrawdownPct(df) == Rat((df.peak - df.current) * 100, df.peak)

\* _days_since_last_buy
DaysSinceLastBuy(st, t) ==
    IF IsNone(st.last_buy_date) THEN None
    ELSE Some(DateOf(t) - Val(st.last_buy_date))

RECURSIVE SumShares(_)
SumShares(positions) ==
    IF positions = <<>> THEN Zero
    ELSE RatAdd(Head(positions).shares, SumShares(Tail(positions)))

CurrentValue(st, df) == RatMul(SumShares(st.positions), Rat(df.current, 1))

\* pnl_pct of get_signal
PnlPct(st, df) ==
    IF RatLess(Zero, st.total_invested)
    THEN RatMul(RatDiv(RatSub(CurrentValue(st, df), st.total_invested),
                       st.total_invested), Rat(100, 1))
    ELSE Zero

Signal(action, signal_type, amount) ==
    [action |-> action, signal_type |-> signal_type, amount |-> amount]

\* can_buy with the cooldown a day short.
CanBuyDayEarly(days_since_buy, min_days) ==
    IsNone(days_since_buy) \/ Val(days_since_buy) >= min_days - 1

\* can_buy
CanBuy(days_since_buy, min_days) ==
    IsNone(days_since_buy) \/ Val(days_since_buy) >= min_days

\* The buy rule of one zone: BUY if the cooldown is over and there is room.
BuyRule(st, t, signal_type, amount, min_days) ==
    IF CanBuy(DaysSinceLastBuy(st, t), min_days)
       /\ RatLess(Zero, RatMin(Rat(amount, 1),
                               RatSub(Rat(MaxPosition, 1), st.total_invested)))
    THEN Signal("BUY", Some(signal_type),
                RatMin(Rat(amount, 1), RatSub(Rat(MaxPosition, 1), st.total_invested)))
    ELSE Signal("HOLD", None, Zero)

\* The buy rule of the zone the drawdown is in.
ZoneBuyRule(st, df, t) ==
    IF RatLeq(Rat(DrawdownThreshold, 1), DrawdownPct(df))
    THEN BuyRule(st, t, "aggressive_buy", AggressiveBuyAmount, MinDaysAggressive)
    ELSE BuyRule(st, t, "normal_buy", NormalBuyAmount, MinDaysNormal)

\* get_signal with the stop-loss test after the buy rules.
GetSignalStopLossLast(st, df, t) ==
    IF RatLeq(Rat(ProfitTakeThreshold, 1), PnlPct(st, df))
    THEN Signal("SELL", Some("profit_take"), RatMul(CurrentValue(st, df), Rat(25, 100)))
    ELSE IF RatLeq(Rat(MaxPosition, 1), st.total_invested)
    THEN Signal("HOLD", None, Zero)
    ELSE IF ZoneBuyRule(st, df, t).action = "BUY"
    THEN ZoneBuyRule(st, df, t)
    ELSE IF RatLeq(PnlPct(st, df), Rat(StopLossPct, 1))
    THEN Signal("STOP_LOSS", Some("stop_loss"), Zero)
    ELSE Signal("HOLD", None, Zero)

\* get_signal on the price data df at time t.
GetSignal(st, df, t) ==
    IF RatLeq(PnlPct(st, df), Rat(StopLossPct, 1))
    THEN Signal("STOP_LOSS", Some("stop_loss"), Zero)
    ELSE IF RatLeq(Rat(ProfitTakeThreshold, 1), PnlPct(st, df))
    THEN Signal("SELL", Some("profit_take"), RatMul(CurrentValue(st, df), Rat(25, 100)))
    ELSE IF RatLeq(Rat(MaxPosition, 1), st.total_invested)
    THEN Signal("HOLD", None, Zero)
    ELSE ZoneBuyRule(st, df, t)

(***************************************************************************)
(* main.py: the endpoints of the drawdown strategy.  Each handler runs at  *)
(* one instant of the clock; "fetched" is what the price source would      *)
(* answer at that instant.  output keeps the latest call: the signal the   *)
(* handler computed and what it returned.                                  *)
(***************************************************************************)
Response(call, signal, status, reason) ==
    [call |-> call, signal |-> signal, status |-> status, reason |-> reason]

\* "amount or signal['amount']": no amount and the amount 0 are both false.
BuyAmount(amount, signal) ==
    IF IsNone(amount) \/ Val(amount) = 0 THEN signal.amount ELSE Rat(Val(amount), 1)

\* The state after a buy of buy_amount at the price is recorded.
RecordBuy(st, t, price, buy_amount) ==
    [st EXCEPT
        !.positions = Append(@, [date |-> t, price |-> price, amount |-> buy_amount,
                                 shares |-> RatDiv(buy_amount, Rat(price, 1))]),
        !.last_buy_date = Some(DateOf(t)),
        !.total_invested = RatAdd(@, buy_amount)]

KeptPosition(p) == RatLess(Rat(1, 1000), p.shares)

\* The state after a sell of 25 % is recorded.
RecordSell(st) ==
    [st EXCEPT
        !.positions =
            SelectSeq([k \in 1 .. Len(@) |->
                          [@[k] EXCEPT !.shares = RatMul(@, Rat(75, 100))]],
                      KeptPosition),
        !.total_invested = RatMul(@, Rat(75, 100))]

\* execute_action("buy", amount) with the cap test left out.
ExecuteBuyUncapped(amount, fetched) ==
    \E read \in {GetPriceData(cache, clock, fetched)} :
    \E signal \in {GetSignal(state, read.df, clock)} :
        /\ cache' = read.cache
        /\ IF signal.action # "BUY"
           THEN /\ state' = state
                /\ output' = Some(Response("buy", signal, "error", "No buy signal active"))
           ELSE /\ state' = RecordBuy(state, clock, read.df.current,
                                      BuyAmount(amount, signal))
                /\ output' = Some(Response("buy", signal, "recorded", "BUY"))
        /\ UNCHANGED <<preds, stats, now, market, lastRun, latest, digests, clock, input>>

\* POST /api/execute/buy
ExecuteBuy(amount, fetched) ==
    \E read \in {GetPriceData(cache, clock, fetched)} :
    \E signal \in {GetSignal(state, read.df, clock)} :
        /\ cache' = read.cache
        /\ IF signal.action # "BUY"
           THEN /\ state' = state
                /\ output' = Some(Response("buy", signal, "error", "No buy signal active"))
           ELSE IF RatLess(Rat(MaxPosition, 1),
                           RatAdd(state.total_invested, BuyAmount(amount, signal)))
           THEN /\ state' = state
                /\ output' = Some(Response("buy", signal, "error",
                                           "Would exceed max position"))
           ELSE /\ state' = RecordBuy(state, clock, read.df.current,
                                      BuyAmount(amount, signal))
                /\ output' = Some(Response("buy", signal, "recorded", "BUY"))
        /\ UNCHANGED <<preds, stats, now, market, lastRun, latest, digests, clock, input>>

\* POST /api/execute/sell
ExecuteSell(fetched) ==
    \E read \in {GetPriceData(cache, clock, fetched)} :
    \E signal \in {GetSignal(state, read.df, clock)} :
        /\ cache' = read.cache
        /\ IF state.positions = <<>>
           THEN /\ state' = state
                /\ output' = Some(Response("sell", signal, "error", "No positions to sell"))
           ELSE /\ state' = RecordSell(state)
                /\ output' = Some(Response("sell", signal, "recorded", "SELL"))
        /\ UNCHANGED <<preds, stats, now, market, lastRun, latest, digests, clock, input>>

\* POST /api/reset
ResetState ==
    /\ state' = InitialState
    /\ output' = Some(Response("reset", Signal("HOLD", None, Zero), "reset", "reset"))
    /\ UNCHANGED <<preds, stats, now, market, lastRun, latest, digests, cache, clock, input>>

\* GET /api/signal
GetSignalCall(fetched) ==
    \E read \in {GetPriceData(cache, clock, fetched)} :
        /\ cache' = read.cache
        /\ output' = Some(Response("signal", GetSignal(state, read.df, clock),
                                   "ok", "signal"))
        /\ UNCHANGED <<preds, stats, now, market, lastRun, latest, digests, state, clock,
                       input>>

\* The wall clock moves on.
Tick(t) ==
    /\ t > clock
    /\ clock' = t
    /\ UNCHANGED <<preds, stats, now, market, lastRun, latest, digests, state, cache,
                   input, output>>

(***************************************************************************)
(* The drawdown strategy over the instants and price data below: closes of *)
(* 125 to 250 under a 252-day high of 250, so that the drawdown is 0, 20   *)
(* or more per cent, and a position bought at one close is at -25 % or     *)
(* +40 % at another.  The model follows a state for MaxTrades buys, and    *)
(* through sells while its amounts are multiples of 1 / MaxDen.            *)
(***************************************************************************)
PriceDatas == { PriceData(c, 250) : c \in {125, 150, 175, 200, 250} }

Amounts == {None, Some(9800), Some(-500)}

Instants ==
    {0, CacheTtl, SecondsPerDay + 10} \cup
    { d * SecondsPerDay : d \in {MinDaysAggressive, MinDaysNormal} \cap (0 .. MaxDays) }

InitStrategy ==
    /\ IdleLedger
    /\ input = None
    /\ output = None

ExecuteBuyCall ==
    /\ Len(state.positions) < MaxTrades
    /\ \E amount \in Amounts, fetched \in PriceDatas : ExecuteBuy(amount, fetched)

\* The total and the shares are multiples of 1 / MaxDen.
Divisible(st) ==
    /\ st.total_invested.den <= MaxDen
    /\ \A k \in 1 .. Len(st.positions) : st.positions[k].shares.den <= MaxDen

ExecuteSellCall ==
    /\ Divisible(state)
    /\ \E fetched \in PriceDatas : ExecuteSell(fetched)

NextStrategy ==
    \/ ExecuteBuyCall
    \/ ExecuteSellCall
    \/ ResetState
    \/ \E fetched \in PriceDatas : GetSignalCall(fetched)
    \/ \E t \in Instants : Tick(t)

SpecStrategy == InitStrategy /\ [][NextStrategy]_vars

(***************************************************************************)
(* Two run_verification passes that may overlap: the scheduled pass and    *)
(* the one of POST /run.  Each has its own database session.  The queries  *)
(* of a pass load the rows that are pending as committed at that moment;   *)
(* the loops assign to the loaded rows and count; the UPDATE statements    *)
(* the session then issues set the columns the pass assigned, on the row   *)
(* with that primary key, with no condition on verified_h.  BeginPass is   *)
(* the point at which the pass has read its pending lists, FinishPass the  *)
(* loops, the commit, update_verification_stats and the return.            *)
(* input[p] is the session of pass p, output[p] what the pass returned.    *)
(***************************************************************************)
Passes == {"scheduled", "manual"}

\* The answers the lookups of a pass get for the entries it loaded.
PassFetches(pending, ledger, quote) ==
    { [e \in pending |-> FetchStockData(g[e], quote[ledger[e[1]].ticker])] :
        g \in { l \in [pending -> Lookups] :
                   Cardinality({ e \in DOMAIN l : l[e] # "price" }) <= MaxFailed } }

InitOverlap ==
    /\ preds = <<>>
    /\ stats = <<>>
    /\ now = 0
    /\ market \in [Tickers -> Quotes]
    /\ lastRun = NoRun
    /\ latest = [seen |-> 0, id |-> 0]
    /\ digests = <<>>
    /\ state = InitialState
    /\ cache = NoCache
    /\ clock = 0
    /\ input = [p \in Passes |-> None]
    /\ output = [p \in Passes |-> None]

\* run_verification up to the end of its queries.
BeginPass(p) ==
    /\ IsNone(input[p])
    /\ input' = [input EXCEPT ![p] = Some([at |-> now, pending |-> DueEntries(preds, now)])]
    /\ UNCHANGED <<preds, stats, now, market, lastRun, latest, digests, state, cache, clock,
                 output>>

\* run_verification from its loops on.
FinishPass(p, fetch) ==
    /\ IsNone(output[p])
    /\ preds' = [i \in Ids(preds) |-> VerifyRow(preds[i], i, fetch)]
    /\ stats' = Append(stats, UpdateVerificationStats(preds', now))
    /\ output' = [output EXCEPT ![p] = Some(RunResults(preds, fetch))]
    /\ UNCHANGED <<now, market, lastRun, latest, digests, state, cache, clock,
                 input>>

FinishPassCall(p) ==
    /\ ~IsNone(input[p])
    /\ \E fetch \in PassFetches(Val(input[p]).pending, preds, market) : FinishPass(p, fetch)

NextOverlap ==
    \/ \E pick \in Picks : LogPrediction(pick)
    \/ \E t \in Days, quote \in [Tickers -> Quotes] : Advance(t, quote)
    \/ \E p \in Passes : BeginPass(p)
    \/ \E p \in Passes : FinishPassCall(p)

SpecOverlap == InitOverlap /\ [][NextOverlap]_vars

(***************************************************************************)
(* generate_digest run again and again: the scheduled run of               *)
(* generate_daily.py and POST /generate, on the same day or the next.      *)
(* Every stock gets a quote with a low or with a high P/E, or its lookup   *)
(* fails; runs go on while the ledger is within MaxRepeatLedger.           *)
(***************************************************************************)
RepeatWorlds ==
    { World(StockData(Some(100), None), Some(14), NoHistory, <<>>),
      World(StockData(Some(100), None), Some(42), NoHistory, <<>>),
      World(NoData, None, NoHistory, <<>>) }

TriggerGeneration ==
    /\ Len(preds) <= MaxRepeatLedger
    /\ \E worlds \in [1 .. Len(TrackedStocks) -> RepeatWorlds] : GenerateDigest(worlds)

NextRepeat == TriggerGeneration \/ NextDay

SpecRepeat == InitDigest /\ [][NextRepeat]_vars

(***************************************************************************)
(* Vocabulary of the properties.                                           *)
(***************************************************************************)
Entries(ledger) == Ids(ledger) \X Horizons

\* The four columns of one horizon of a row.
HorizonFields(pred, h) ==
    <<pred.verified[h], pred.price_after[h], pred.correct[h], pred.return[h]>>

\* The columns written when the prediction is logged.
EmissionFields(pred) ==
    <<pred.ticker, pred.company_name, pred.direction, pred.score,
      pred.price_at_prediction, pred.prediction_date>>

\* Old enough for horizon e[2] at time t.
Aged(ledger, e, t) == ledger[e[1]].prediction_date + e[2] <= t

Pending(ledger, e) == ~ledger[e[1]].verified[e[2]]

\* Two statistics rows that differ at most in their timestamp.
SameSnapshot(a, b) == [a EXCEPT !.calculated_at = 0] = [b EXCEPT !.calculated_at = 0]

VerifiedIsComplete ==
    \A e \in Entries(preds) :
        preds[e[1]].verified[e[2]] =>
            /\ ~IsNone(preds[e[1]].price_after[e[2]])
            /\ ~IsNone(preds[e[1]].correct[e[2]])
            /\ ~IsNone(preds[e[1]].return[e[2]])

VerifiedIsKept ==
    \A e \in Entries(preds) :
        preds[e[1]].verified[e[2]] =>
            /\ e[1] \in Ids(preds')
            /\ HorizonFields(preds'[e[1]], e[2]) = HorizonFields(preds[e[1]], e[2])

(***************************************************************************)
(* C1.  In every reachable state a horizon that is verified has its price, *)
(* its correctness and its return set, and no step changes any of the four *)
(* columns of a horizon that is already verified.                          *)
(***************************************************************************)
C1_WriteOnce == []VerifiedIsComplete /\ [][VerifiedIsKept]_vars

\* A row verified at 1 day and at 7 days by passes that saw different prices:
\* the later pass met the 1-day result and left it.
C1_Witness ==
    \E i \in Ids(preds) :
        /\ preds[i].verified[1]
        /\ preds[i].verified[7]
        /\ preds[i].price_after[1] # preds[i].price_after[7]

SecondPass ==
    /\ RunVerificationCall
    /\ lastRun.ran
    /\ preds = lastRun.after
    /\ \A e \in Entries(preds) : Aged(preds, e, now) <=> Aged(preds, e, lastRun.at)

NothingNew ==
    /\ \A h \in Horizons : lastRun'.results.verified[h] = 0
    /\ preds' = preds
    /\ SameSnapshot(stats'[Len(stats')], stats[lastRun.snapshot])

VerifiedIsAged ==
    \A e \in Entries(preds) : preds[e[1]].verified[e[2]] => Aged(preds, e, now)

OnlyAgedBecomeVerified ==
    \A e \in Entries(preds) :
        (Pending(preds, e) /\ preds'[e[1]].verified[e[2]]) => Aged(preds, e, now)

EveryAgedIsSelected ==
    RunVerificationCall =>
        \A e \in Entries(preds) :
            (Pending(preds, e) /\ Aged(preds, e, now)) =>
                (preds'[e[1]].verified[e[2]] \/ e \in lastRun'.failed)

(***************************************************************************)
(* C4.  No horizon h is verified before its row is h days old; a step that *)
(* verifies a horizon does so on a row at least h days old; and a pass     *)
(* fetches a price for every pending horizon whose row is h days old.      *)
(***************************************************************************)
C4_MaturedOnly ==
    /\ []VerifiedIsAged
    /\ [][OnlyAgedBecomeVerified]_vars
    /\ [][EveryAgedIsSelected]_vars

\* A row verified at 7 days by a pass on its 7th day, exactly.
C4_Witness ==
    \E i \in Ids(preds) :
        /\ preds[i].verified[7]
        /\ lastRun.ran
        /\ lastRun.at = preds[i].prediction_date + 7
        /\ now = lastRun.at
        /\ ~preds[i].verified[30]

ExactReturn(prediction, current_price) ==
    IF prediction.direction = "buy"
    THEN (current_price - prediction.price_at_prediction) * 10000
    ELSE -((current_price - prediction.price_at_prediction) * 10000)

DirectionCorrect(prediction, current_price) ==
    IF prediction.direction = "buy"
    THEN current_price > prediction.price_at_prediction
    ELSE current_price < prediction.price_at_prediction

(***************************************************************************)
(* C5.  As claimed: the return is exactly (current - at prediction) / at   *)
(* prediction * 100 for a buy and its negation for a sell; a buy is        *)
(* correct iff the price rose, a sell iff it fell.                         *)
(***************************************************************************)
C5_ExactReturn ==
    ~IsNone(output) =>
        /\ ~Val(output).raised
        /\ Val(output).correct
               = DirectionCorrect(Val(input).prediction, Val(input).current_price)
        /\ Val(output).return_pct * Val(input).prediction.price_at_prediction
               = ExactReturn(Val(input).prediction, Val(input).current_price)

(***************************************************************************)
(* C5, amended.  The return is that percentage rounded to two decimals     *)
(* (the nearest hundredth, the even one of two equally near); correctness  *)
(* as claimed, an unchanged price being correct for neither direction.     *)
(***************************************************************************)
C5_RoundedReturn ==
    ~IsNone(output) =>
        LET pap == Val(input).prediction.price_at_prediction
            off == Val(output).return_pct * pap
                       - ExactReturn(Val(input).prediction, Val(input).current_price)
            gap == IF off >= 0 THEN off ELSE -off
        IN  /\ ~Val(output).raised
            /\ Val(output).correct
                   = DirectionCorrect(Val(input).prediction, Val(input).current_price)
            /\ (Val(input).current_price = pap => ~Val(output).correct)
            /\ \/ 2 * gap < pap
               \/ 2 * gap = pap /\ Val(output).return_pct % 2 = 0

\* 100 -> 110 on a sell: incorrect, -10.00.
C5_Witness ==
    /\ ~IsNone(output)
    /\ Val(input).prediction.direction = "sell"
    /\ Val(input).prediction.price_at_prediction = 100
    /\ Val(input).current_price = 110
    /\ ~Val(output).correct
    /\ Val(output).return_pct = -1000

(***************************************************************************)
(* C6.  In a pass, a due horizon whose lookup gives no price keeps its     *)
(* four columns (it stays pending), and every other due horizon is         *)
(* verified.                                                               *)
(***************************************************************************)
C6_FailureIsLocal ==
    [][RunVerificationCall =>
        \A e \in Entries(preds) :
            (Pending(preds, e) /\ Aged(preds, e, now)) =>
                IF e \in lastRun'.failed
                THEN HorizonFields(preds'[e[1]], e[2]) = HorizonFields(preds[e[1]], e[2])
                ELSE preds'[e[1]].verified[e[2]]]_vars

\* A pass in which a lookup failed after an earlier lookup of the same row,
\* or of an earlier row, and a later one succeeded.
C6_Witness ==
    /\ lastRun.ran
    /\ lastRun.at = now
    /\ \E e \in lastRun.failed :
          /\ ~preds[e[1]].verified[e[2]]
          /\ \E f \in Entries(preds) :
                /\ f # e
                /\ (f[1] > e[1] \/ (f[1] = e[1] /\ f[2] > e[2]))
                /\ preds[f[1]].verified[f[2]]
                /\ lastRun.results.verified[f[2]] > 0

(***************************************************************************)
(* C7.  As claimed: every lookup of the latest pass that gave no price has *)
(* an item for its horizon and ticker in the errors the pass returned.     *)
(***************************************************************************)
C7_FailureIsReported ==
    \A e \in lastRun.failed :
        \E k \in 1 .. Len(lastRun.results.errors) :
            /\ lastRun.results.errors[k][1] = e[2]
            /\ lastRun.results.errors[k][2] = lastRun.after[e[1]].ticker

(***************************************************************************)
(* C8.  No step changes a column written at emission, and no step changes  *)
(* a column of a horizon whose verified flag it does not turn on: what     *)
(* happens to one horizon of a row leaves the other two as they were.      *)
(***************************************************************************)
C8_HorizonFrame ==
    [][\A i \in Ids(preds) :
          /\ i \in Ids(preds')
          /\ EmissionFields(preds'[i]) = EmissionFields(preds[i])
          /\ \A g \in Horizons :
                (preds'[i].verified[g] = preds[i].verified[g]) =>
                    HorizonFields(preds'[i], g) = HorizonFields(preds[i], g)]_vars

\* A row verified at 7 days whose 1-day result is of another price and whose
\* 30-day horizon is still empty.
C8_Witness ==
    \E i \in Ids(preds) :
        /\ preds[i].verified[7]
        /\ preds[i].verified[1]
        /\ preds[i].price_after[1] # preds[i].price_after[7]
        /\ HorizonFields(preds[i], 30) = <<FALSE, None, None, None>>
        /\ lastRun.at >= preds[i].prediction_date + 30

(***************************************************************************)
(* C9.  As claimed: get_latest_stats returns the row appended last.        *)
(***************************************************************************)
C9_LatestIsLastAppended == latest.id = latest.seen

(***************************************************************************)
(* C10.  As claimed: in every statistics row and for every horizon, the    *)
(* accuracy and the average return are None exactly when no row is         *)
(* verified at that horizon, and otherwise the accuracy is correct /       *)
(* verified * 100 (to one decimal).                                        *)
(***************************************************************************)
C10_NullOnlyWhenNoneVerified ==
    \A k \in 1 .. Len(stats) : \A h \in Horizons :
        /\ IsNone(stats[k].accuracy[h]) <=> stats[k].verified_count[h] = 0
        /\ IsNone(stats[k].avg_return[h]) <=> stats[k].verified_count[h] = 0
        /\ stats[k].verified_count[h] > 0 =>
              stats[k].accuracy[h]
                  = Some(RoundHalfEven(stats[k].correct_count[h] * 1000,
                                       stats[k].verified_count[h]))


(***************************************************************************)
(* C15.  get_signal_from_score gives every score exactly one of the five   *)
(* labels: Strong Buy from 60 up, Buy from 30 to below 60, Hold from -30   *)
(* to below 30, Sell from -60 to below -30, Strong Sell below -60.         *)
(***************************************************************************)
C15_SignalBands ==
    ~IsNone(output) =>
        LET s == Val(input).score
            label == Val(output).signal
            from(n) == RatLeq(Rat(n, 1), s)
        IN  /\ label \in {"Strong Buy", "Buy", "Hold", "Sell", "Strong Sell"}
            /\ label = "Strong Buy" <=> from(60)
            /\ label = "Buy" <=> (from(30) /\ ~from(60))
            /\ label = "Hold" <=> (from(-30) /\ ~from(30))
            /\ label = "Sell" <=> (from(-60) /\ ~from(-30))
            /\ label = "Strong Sell" <=> ~from(-60)

\* The four boundary scores have been labelled: here 30, a Buy.
C15_Witness ==
    /\ ~IsNone(output)
    /\ Val(input).score = Rat(30, 1)
    /\ Val(output).signal = "Buy"


(***************************************************************************)
(* C20.  As claimed: given a 3-month history, whenever an indicator is     *)
(* undefined (RSI under 15 closing prices, the moving averages under       *)
(* 20 / 50, the range position without 1-year data or with high = low),    *)
(* calc_technicals does not raise, labels that indicator N/A and returns   *)
(* the score 0.3 * RSI + 0.5 * MA + 0.2 * Range with the undefined ones    *)
(* as 0.                                                                   *)
(***************************************************************************)
C20_UndefinedIsNotAvailable ==
    ~IsNone(output) =>
        LET h == Val(input)
            out == Val(output)
            rsiUndefined == h.bars < 15
            maUndefined == h.bars < 50
            rangeUndefined == IsNone(h.year) \/ Val(h.year).high = Val(h.year).low
            rsiScore == IF rsiUndefined \/ IsNone(h.rsi) THEN Zero
                        ELSE GetRsiSignal(Val(h.rsi))[2]
            maScore == IF maUndefined THEN Zero
                       ELSE GetSmaSignal(Val(h.mean_20), Val(h.mean_50), h.close)[2]
            rangeScore == IF rangeUndefined THEN Zero
                          ELSE GetRangeSignal(Rat((h.close - Val(h.year).low) * 100,
                                                  Val(h.year).high - Val(h.year).low))[2]
        IN  (h.bars > 0 /\ (rsiUndefined \/ maUndefined \/ rangeUndefined)) =>
                /\ ~out.raised
                /\ rsiUndefined => out.value.rsi_signal = Some("N/A")
                /\ maUndefined => out.value.sma_signal = Some("N/A")
                /\ rangeUndefined => out.value.range_signal = Some("N/A")
                /\ out.value.score = Some(OverallScore(rsiScore, maScore, rangeScore))


InUnit(x) == RatLeq(MinusOne, x) /\ RatLeq(x, One)

(***************************************************************************)
(* C14.  In every StockScore that calculate_score returns, each of the     *)
(* three sub-scores lies in [-1, 1], the score is                          *)
(* (0.40 * technical + 0.30 * sentiment + 0.30 * fundamental) * 100 and    *)
(* lies in [-100, 100].                                                    *)
(***************************************************************************)
C14_ScoreIsBounded ==
    (~IsNone(output) /\ ~Val(output).raised) =>
        LET b == Val(output).value.breakdown
            score == Val(output).value.score
        IN  /\ InUnit(b.technical_score)
            /\ InUnit(b.sentiment_score)
            /\ InUnit(b.fundamental_score)
            /\ score.num * 100 * b.technical_score.den * b.sentiment_score.den
                             * b.fundamental_score.den
                   = score.den * 100
                       * ( 40 * b.technical_score.num * b.sentiment_score.den
                                * b.fundamental_score.den
                         + 30 * b.sentiment_score.num * b.technical_score.den
                                * b.fundamental_score.den
                         + 30 * b.fundamental_score.num * b.technical_score.den
                                * b.sentiment_score.den )
            /\ RatLeq(Rat(-100, 1), score)
            /\ RatLeq(score, Rat(100, 1))

\* A score above 80 whose sentiment and fundamental sub-scores both came out
\* of their clamps at 1.
C14_Witness ==
    /\ ~IsNone(output)
    /\ ~Val(output).raised
    /\ Val(output).value.breakdown.sentiment_score = One
    /\ Val(output).value.breakdown.fundamental_score = One
    /\ Val(input).world.pe_ratio = Some(-5)
    /\ RatLess(Rat(80, 1), Val(output).value.score)


(***************************************************************************)
(* C16.  As claimed: whenever the lookup of the ticker reports a failure   *)
(* (its StockData carries an error), calculate_score returns, without      *)
(* raising, a StockScore with that error, score 0 and signal Hold; and     *)
(* every StockScore with an error has score 0 and signal Hold.             *)
(***************************************************************************)
C16_LookupFailureIsHold ==
    ~IsNone(output) =>
        /\ ~IsNone(Val(input).world.stock_data.error) =>
              /\ ~Val(output).raised
              /\ Val(output).value.error = Val(input).world.stock_data.error
              /\ Val(output).value.score = Zero
              /\ Val(output).value.signal = "Hold"
        /\ (~Val(output).raised /\ ~IsNone(Val(output).value.error)) =>
              /\ Val(output).value.score = Zero
              /\ Val(output).value.signal = "Hold"


\* The scores of a list never rise / never fall from one entry to the next.
Descending(list) ==
    \A k \in 1 .. Len(list) - 1 : ~RatLess(list[k].score, list[k + 1].score)
Ascending(list) ==
    \A k \in 1 .. Len(list) - 1 : ~RatLess(list[k + 1].score, list[k].score)

(***************************************************************************)
(* C12.  As claimed: for every list of scores and every top_n, the buy     *)
(* list has at most top_n entries, all positive, in descending order of    *)
(* score, and the sell list at most top_n entries, all negative, in        *)
(* ascending order of score.                                               *)
(***************************************************************************)
C12_AtMostTopN ==
    ~IsNone(output) =>
        LET buy == Val(output).buy_picks
            sell == Val(output).sell_picks
        IN  /\ Len(buy) <= Val(input).top_n
            /\ \A k \in 1 .. Len(buy) : IsPositive(buy[k])
            /\ Descending(buy)
            /\ Len(sell) <= Val(input).top_n
            /\ \A k \in 1 .. Len(sell) : IsNegative(sell[k])
            /\ Ascending(sell)

\* The place of a ticker in the input list.
PlaceOf(scores, ticker) == CHOOSE k \in 1 .. Len(scores) : scores[k].ticker = ticker

\* Entries of the list with equal scores stand in the order of the input.
TiesInInputOrder(list, scores) ==
    \A j, k \in 1 .. Len(list) :
        (j < k /\ list[j].score = list[k].score) =>
            PlaceOf(scores, list[j].ticker) < PlaceOf(scores, list[k].ticker)

(***************************************************************************)
(* C13.  As claimed: entries with equal scores keep the order they had in  *)
(* the input list, in the buy list and in the sell list.                   *)
(***************************************************************************)
C13_TiesKeepInputOrder ==
    ~IsNone(output) =>
        /\ TiesInInputOrder(Val(output).buy_picks, Val(input).scores)
        /\ TiesInInputOrder(Val(output).sell_picks, Val(input).scores)

\* The valid negative entries of the input that are not in the sell list.
LeftOut(scores, sell) ==
    { k \in 1 .. Len(scores) :
        /\ IsValid(scores[k])
        /\ IsNegative(scores[k])
        /\ \A j \in 1 .. Len(sell) : sell[j].ticker # scores[k].ticker }

\* Fewer than top_n negative entries among the last top_n positions of the
\* sorted list (so fewer than top_n sell picks), and a valid negative entry
\* left out of the sell list.
TailMissesNegative(scores, top_n, sell) ==
    Len(sell) < top_n /\ LeftOut(scores, sell) # {}

\* The negatives filtered first, then the top_n most negative of them.
MostNegativeFirst(scores, top_n) ==
    LET negatives == SelectSeq(SelectSeq(scores, IsValid), IsNegative)
    IN  SliceTo(Reverse(SortedDescending(negatives)), top_n)

ScoresOf(list) == [k \in 1 .. Len(list) |-> list[k].score]

(***************************************************************************)
(* C19.  As claimed: there are inputs with top_n >= 1 in which fewer than  *)
(* top_n negative entries lie among the last top_n positions and a valid   *)
(* negative entry further up the list is left out of the sell list.        *)
(***************************************************************************)
C19_TailMissesNegative ==
    (~IsNone(output) /\ Val(input).top_n >= 1) =>
        \E x \in SelectInputs :
            /\ x.top_n >= 1
            /\ TailMissesNegative(x.scores, x.top_n,
                                  SelectTopPicks(x.scores, x.top_n).sell_picks)

(***************************************************************************)
(* C19, amended.  For top_n >= 1 the selection from the tail leaves out no *)
(* negative entry unless the sell list is full: the sell list holds top_n  *)
(* entries or every valid negative entry, and no entry left out scores     *)
(* below an entry of the list.  Its scores are those of filtering the      *)
(* negatives first and taking the top_n most negative; the two can differ  *)
(* only in which of the entries of equal score at the cut they take.       *)
(***************************************************************************)
C19_TailTakesMostNegative ==
    (~IsNone(output) /\ Val(input).top_n >= 1) =>
        LET scores == Val(input).scores
            sell == Val(output).sell_picks
        IN  /\ ~TailMissesNegative(scores, Val(input).top_n, sell)
            /\ \A k \in LeftOut(scores, sell) : \A j \in 1 .. Len(sell) :
                  ~RatLess(scores[k].score, sell[j].score)
            /\ ScoresOf(sell) = ScoresOf(MostNegativeFirst(scores, Val(input).top_n))

\* One negative entry among the last two positions of the
\* sorted list, top_n = 2: the sell list has that one entry and nothing is
\* left out.
C19_Witness ==
    /\ ~IsNone(output)
    /\ Val(input).top_n = 2
    /\ Len(Val(output).sell_picks) = 1
    /\ Len(Val(output).buy_picks) = 2
    /\ Len(Val(input).scores) = 4
    /\ \E k \in 1 .. 4 : ~IsValid(Val(input).scores[k])


(***************************************************************************)
(* C17.  As claimed: in the batch of a digest run the result of            *)
(* score_all_stocks has one entry per input ticker, in order; the entry of *)
(* a ticker whose lookup reported an error or whose scoring raised is      *)
(* error-flagged with score 0 and signal Hold, and the entry of any other  *)
(* ticker is what calculate_score returned for it.                         *)
(***************************************************************************)
ScoringFails(stock, world) ==
    \/ ~IsNone(world.stock_data.error)
    \/ CalculateScore(stock, world).raised

C17_OneEntryPerTicker ==
    ~IsNone(output) =>
        \E stocks \in {Val(input).stocks} :
        \E worlds \in {Val(input).worlds} :
        \E scores \in {Val(output).scores} :
            /\ Len(scores) = Len(stocks)
            /\ \A k \in 1 .. Len(stocks) :
                /\ scores[k].ticker = stocks[k].ticker
                /\ ScoringFails(stocks[k], worlds[k]) =>
                      /\ ~IsNone(scores[k].error)
                      /\ scores[k].score = Zero
                      /\ scores[k].signal = "Hold"
                /\ ~ScoringFails(stocks[k], worlds[k]) =>
                      Returned(scores[k]) = CalculateScore(stocks[k], worlds[k])


(***************************************************************************)
(* C11.  As claimed: the rows a digest run appends to the predictions      *)
(* table are, one for one and in order, its buy picks followed by its sell *)
(* picks: each row has its pick's ticker, direction, score and current     *)
(* price and all three horizons pending; and the picks saved in the digest *)
(* of the day are the same picks.                                          *)
(***************************************************************************)
\* The picks of a run with their directions, buy picks first.
DirectedPicks(buy, sell) ==
    [k \in 1 .. Len(buy) + Len(sell) |->
        IF k <= Len(buy) THEN [pick |-> buy[k], direction |-> "buy"]
        ELSE [pick |-> sell[k - Len(buy)], direction |-> "sell"]]

\* The row is the prediction logged for the pick at emission time.
LoggedFor(row, directed) ==
    /\ row.ticker = directed.pick.ticker
    /\ row.direction = directed.direction
    /\ row.score = directed.pick.score
    /\ Some(row.price_at_prediction) = directed.pick.current_price
    /\ \A h \in Horizons : ~row.verified[h] /\ IsNone(row.correct[h])

\* The tickers of the digest row of the given date, buy list first.
PublishedTickers(table, date) ==
    LET row == table[CHOOSE k \in 1 .. Len(table) : table[k].date = date]
    IN  [k \in 1 .. Len(row.data.buy) |-> row.data.buy[k].ticker]
        \o [k \in 1 .. Len(row.data.sell) |-> row.data.sell[k].ticker]

C11_OnePredictionPerPick ==
    [][GenerateDigestCall =>
        \E picks \in {DirectedPicks(Val(output').buy_picks, Val(output').sell_picks)} :
        \E rows \in {SubSeq(preds', Len(preds) + 1, Len(preds'))} :
            /\ Len(rows) = Len(picks)
            /\ \A k \in 1 .. Len(picks) : LoggedFor(rows[k], picks[k])
            /\ PublishedTickers(digests', now) =
                 [k \in 1 .. Len(picks) |-> picks[k].pick.ticker]]_vars


(***************************************************************************)
(* C18.  As claimed: the status response has mode active exactly when      *)
(* is_unlocked is true and observation otherwise; is_unlocked is the flag  *)
(* of the latest snapshot, the one appended last (false when there is      *)
(* none); min_predictions is 50 and min_accuracy 55.0; current_predictions *)
(* and current_accuracy are the 7-day count and accuracy of that snapshot  *)
(* (0 and null when there is none).                                        *)
(***************************************************************************)
C18_StatusFollowsLatest ==
    ~IsNone(output) =>
        \E status \in {Val(output)} :
            /\ (status.mode = "active") <=> status.is_unlocked
            /\ (status.mode = "observation") <=> ~status.is_unlocked
            /\ status.unlock_requirements.min_predictions = 50
            /\ status.unlock_requirements.min_accuracy = 550
            /\ IF stats = <<>>
               THEN /\ ~status.is_unlocked
                    /\ status.unlock_requirements.current_predictions = 0
                    /\ status.unlock_requirements.current_accuracy = None
               ELSE /\ status.is_unlocked = stats[Len(stats)].is_unlocked
                    /\ status.unlock_requirements.current_predictions =
                         stats[Len(stats)].verified_count[7]
                    /\ status.unlock_requirements.current_accuracy =
                         stats[Len(stats)].accuracy[7]


(***************************************************************************)
(* C21.  As claimed: in every score calculate_score returns from the       *)
(* factors, the overall-direction sentence of the explanation says         *)
(* positive exactly when the label is Buy or Strong Buy, negative exactly  *)
(* when it is Sell or Strong Sell, and neutral exactly when it is Hold.    *)
(***************************************************************************)
DirectionOf(result) == result.explanation[1][3]

C21_SentenceMatchesLabel ==
    (~IsNone(output) /\ ~Val(output).raised /\ IsNone(Val(output).value.error)) =>
        \E result \in {Val(output).value} :
            /\ (DirectionOf(result) = "krijgt een positief signaal")
                  <=> (result.signal \in {"Buy", "Strong Buy"})
            /\ (DirectionOf(result) = "krijgt een negatief signaal")
                  <=> (result.signal \in {"Sell", "Strong Sell"})
            /\ (DirectionOf(result) = "is momenteel neutraal")
                  <=> (result.signal = "Hold")


(***************************************************************************)
(* C22.  As claimed: whenever a handler reads the price data while the     *)
(* cached entry is 300 s old or older, however long ago it was cached, the *)
(* data is fetched afresh and the cache timestamp is reset to the time of  *)
(* the call; the cached payload is returned only while it is younger.      *)
(***************************************************************************)
\* A step of a handler that calls _get_price_data.
PriceRead ==
    /\ clock' = clock
    /\ ~IsNone(output')
    /\ Val(output').call \in {"buy", "sell", "signal"}

CacheAge == clock - Val(cache.cache_time)

C22_CacheExpiresByAge ==
    [][(PriceRead /\ ~IsNone(cache.cache_time) /\ CacheAge >= CacheTtl) =>
          cache'.cache_time = Some(clock)]_vars


(***************************************************************************)
(* C24.  Over any sequence of buy, sell and reset calls with any amount    *)
(* and any prices, the stored total_invested never exceeds max_position    *)
(* (10,000), and a buy rejected because it would exceed the cap leaves the *)
(* stored state unchanged.                                                 *)
(***************************************************************************)
\* The step is a buy call that was answered with the given reason.
BuyAnswered(reason) ==
    /\ clock' = clock
    /\ ~IsNone(output')
    /\ Val(output').call = "buy"
    /\ Val(output').reason = reason

C24_NeverOverCap ==
    [][/\ RatLeq(state'.total_invested, Rat(MaxPosition, 1))
       /\ BuyAnswered("Would exceed max position") => state' = state]_vars

\* A buy of 9,800 was recorded and the next buy, which would exceed the
\* cap, was rejected.
C24_Witness ==
    /\ state.total_invested = Rat(9800, 1)
    /\ ~IsNone(output)
    /\ Val(output).call = "buy"
    /\ Val(output).reason = "Would exceed max position"


(***************************************************************************)
(* C25.  Whenever a buy is recorded, either no buy has been recorded since *)
(* the last reset, or at least 7 days have passed since last_buy_date and  *)
(* the drawdown of the price data read is below 20 %, or at least 5 days   *)
(* and the drawdown is 20 % or more; the positions held are never fewer    *)
(* than 5 days apart; and a sell leaves last_buy_date as it is.            *)
(***************************************************************************)
\* The drawdown of the price data the handler of this step has read.
DrawdownRead == DrawdownPct(Val(cache'.price_cache))

DaysApart(p, q) == DateOf(q.date) - DateOf(p.date)

C25_BuysRespectCooldown ==
    [][/\ BuyAnswered("BUY") =>
            \/ IsNone(state.last_buy_date)
            \/ /\ RatLess(DrawdownRead, Rat(DrawdownThreshold, 1))
               /\ DateOf(clock) - Val(state.last_buy_date) >= MinDaysNormal
            \/ /\ RatLeq(Rat(DrawdownThreshold, 1), DrawdownRead)
               /\ DateOf(clock) - Val(state.last_buy_date) >= MinDaysAggressive
       /\ \A j \in 1 .. Len(state'.positions) : \A i \in 1 .. j - 1 :
            DaysApart(state'.positions[i], state'.positions[j]) >= MinDaysAggressive
       /\ (clock' = clock /\ ~IsNone(output') /\ Val(output').call = "sell") =>
            state'.last_buy_date = state.last_buy_date]_vars

\* A buy on day 1 and a second buy on day 7, six days later, which was
\* recorded in the aggressive zone.
C25_Witness ==
    /\ Len(state.positions) = 2
    /\ DateOf(state.positions[1].date) = 1
    /\ DaysApart(state.positions[1], state.positions[2]) = MinDaysNormal - 1
    /\ ~IsNone(output)
    /\ Val(output).call = "buy"
    /\ Val(output).status = "recorded"
    /\ Val(output).signal.signal_type = Some("aggressive_buy")


(***************************************************************************)
(* C26.  As claimed: an execute call records a buy only while the signal   *)
(* it computes is BUY, and a sell only while that signal is SELL (the      *)
(* position is up by the profit-take threshold or more); any other execute *)
(* call returns an error and leaves the stored state unchanged.            *)
(***************************************************************************)
\* The step is an execute call of the given action.
Executed(call) ==
    /\ clock' = clock
    /\ ~IsNone(output')
    /\ Val(output').call = call

C26_TradesFollowSignal ==
    [][/\ (Executed("buy") /\ Val(output').status = "recorded") =>
            Val(output').signal.action = "BUY"
       /\ (Executed("sell") /\ Val(output').status = "recorded") =>
            /\ Val(output').signal.action = "SELL"
            /\ RatLeq(Rat(ProfitTakeThreshold, 1),
                      PnlPct(state, Val(cache'.price_cache)))
       /\ (Executed("buy") /\ Val(output').signal.action # "BUY") =>
            (Val(output').status = "error" /\ state' = state)
       /\ (Executed("sell") /\ Val(output').signal.action # "SELL") =>
            (Val(output').status = "error" /\ state' = state)]_vars


(***************************************************************************)
(* C27.  Whenever a handler computes the signal while the portfolio, at    *)
(* the price it read, is down 25 % or more on a positive total invested,   *)
(* the signal is STOP_LOSS, whatever the drawdown, the cooldown and the    *)
(* remaining capacity; and if the call is a buy it is refused and the      *)
(* stored state is unchanged.                                              *)
(***************************************************************************)
\* The portfolio is down 25 % or more at the price of the data:
\* value - invested <= -25 % of invested.
StopLossHolds(st, df) ==
    /\ RatLess(Zero, st.total_invested)
    /\ RatLeq(RatMul(RatSub(CurrentValue(st, df), st.total_invested), Rat(100, 1)),
              RatMul(st.total_invested, Rat(StopLossPct, 1)))

C27_StopLossFirst ==
    [][(PriceRead /\ StopLossHolds(state, Val(cache'.price_cache))) =>
          /\ Val(output').signal.action = "STOP_LOSS"
          /\ Executed("buy") => (Val(output').status = "error" /\ state' = state)]_vars

\* A buy was refused by the stop-loss at exactly -25 %, in the aggressive
\* zone, with the cooldown over and room under the cap.
C27_Witness ==
    /\ ~IsNone(output)
    /\ Val(output).call = "buy"
    /\ Val(output).status = "error"
    /\ Val(output).signal.action = "STOP_LOSS"
    /\ Len(state.positions) = 1
    /\ state.positions[1].price = 200
    /\ ~IsNone(cache.price_cache)
    /\ Val(cache.price_cache).current = 150
    /\ DateOf(clock) - Val(state.last_buy_date) >= MinDaysAggressive
    /\ RatLess(state.total_invested, Rat(MaxPosition, 1))

(***************************************************************************)
(* C28: aggregate_sentiment returns None for an empty headline list and    *)
(* otherwise the arithmetic mean of the per-headline scores, each of them  *)
(* within [-1, 1]; the aggregate is positive when every headline has       *)
(* matches only in the positive lexicon and no negator token, and negative *)
(* when every headline has matches only in the negative lexicon and no     *)
(* negator token.  A negator token is a token that is a negator as it      *)
(* stands in the headline.                                                 *)
(***************************************************************************)
RECURSIVE TotalScore(_, _)
TotalScore(texts, n) ==
    IF n = 0 THEN Zero ELSE RatAdd(TotalScore(texts, n - 1), ScoreSentiment(texts[n]))

OnlyPositive(text) ==
    /\ \E k \in 1 .. Len(text) : text[k][1] \in PositiveWords
    /\ \A k \in 1 .. Len(text) : text[k][1] \notin NegativeWords
    /\ \A k \in 1 .. Len(text) : text[k][2] \/ text[k][1] \notin Negators

OnlyNegative(text) ==
    /\ \E k \in 1 .. Len(text) : text[k][1] \in NegativeWords
    /\ \A k \in 1 .. Len(text) : text[k][1] \notin PositiveWords
    /\ \A k \in 1 .. Len(text) : text[k][2] \/ text[k][1] \notin Negators

C28_AggregateIsClampedMean ==
    ~IsNone(output) =>
        LET texts == Val(input).texts
            aggregate == Val(output).aggregate
        IN  /\ texts = <<>> => IsNone(aggregate)
            /\ texts # <<>> =>
                  /\ ~IsNone(aggregate)
                  /\ RatMul(Val(aggregate), Rat(Len(texts), 1)) = TotalScore(texts, Len(texts))
                  /\ \A k \in 1 .. Len(texts) :
                        /\ RatLeq(MinusOne, ScoreSentiment(texts[k]))
                        /\ RatLeq(ScoreSentiment(texts[k]), One)
                  /\ (\A k \in 1 .. Len(texts) : OnlyPositive(texts[k])) =>
                        RatLess(Zero, Val(aggregate))
                  /\ (\A k \in 1 .. Len(texts) : OnlyNegative(texts[k])) =>
                        RatLess(Val(aggregate), Zero)

\* Two headlines with positive matches only, one of them amplified beyond 1
\* before the clamp: the mean is 1.
C28_Witness ==
    /\ ~IsNone(output)
    /\ Val(input).texts = << <<Plain("record"), Plain("surge")>>, <<Plain("surge")>> >>
    /\ Val(output).aggregate = Some(One)

(***************************************************************************)
(* C29: in the sequence of stats snapshots, in the order they were         *)
(* produced, total_predictions and each verified_h_count never decrease    *)
(* from one snapshot to the next, and every snapshot has                   *)
(* correct_h_count <= verified_h_count <= total_predictions for each       *)
(* horizon h.                                                              *)
(***************************************************************************)
C29_SnapshotsGrow ==
    /\ \A k \in 1 .. Len(stats) : \A h \in Horizons :
          /\ stats[k].correct_count[h] <= stats[k].verified_count[h]
          /\ stats[k].verified_count[h] <= stats[k].total_predictions
    /\ \A k \in 2 .. Len(stats) :
          /\ stats[k - 1].total_predictions <= stats[k].total_predictions
          /\ \A h \in Horizons :
                stats[k - 1].verified_count[h] <= stats[k].verified_count[h]

\* A recalculation before and a verification pass after a day on which a
\* second prediction was logged: the total, the 1-day verified count and the
\* 1-day correct count all grew.
C29_Witness ==
    /\ Len(stats) = 2
    /\ lastRun.ran /\ lastRun.snapshot = 2
    /\ stats[1].total_predictions = 1 /\ stats[2].total_predictions = 2
    /\ stats[1].verified_count[1] = 0 /\ stats[2].verified_count[1] = 1
    /\ stats[2].correct_count[1] = 1

(***************************************************************************)
(* C23: when two run_verification passes overlap, every (prediction,       *)
(* horizon) is still transitioned by at most one of them: the result       *)
(* fields of a horizon that is verified are not written again, and the     *)
(* verified_h counts the passes returned add up to the number of entries   *)
(* that are verified for h.                                                *)
(***************************************************************************)
ReturnedCount(p, h) == IF IsNone(output[p]) THEN 0 ELSE Val(output[p]).verified[h]

CountsAddUp ==
    \A h \in Horizons :
        ReturnedCount("scheduled", h) + ReturnedCount("manual", h)
            = Cardinality(VerifiedRows(preds, h))

ResultsKept ==
    \A i \in Ids(preds) : \A h \in Horizons :
        preds[i].verified[h] =>
            /\ preds'[i].price_after[h] = preds[i].price_after[h]
            /\ preds'[i].correct[h] = preds[i].correct[h]
            /\ preds'[i].return[h] = preds[i].return[h]

C23_OverlapTransitionsOnce == [](CountsAddUp) /\ [][ResultsKept]_vars

(***************************************************************************)
(* C30: after any number of generate_digest runs there is exactly one      *)
(* Digest record for each date a run was made on, and the ledger holds at  *)
(* most one Prediction per (ticker, direction, digest date).               *)
(***************************************************************************)
OneDigestPerDate ==
    \A j, k \in 1 .. Len(digests) : digests[j].date = digests[k].date => j = k

C30_RepeatAddsNothing ==
    /\ OneDigestPerDate
    /\ \A i, j \in Ids(preds) :
          (/\ preds[i].ticker = preds[j].ticker
           /\ preds[i].direction = preds[j].direction
           /\ preds[i].prediction_date = preds[j].prediction_date) => i = j

====
